---- MODULE Spec2Model ----
(***************************************************************************)
(* A model of the normalisation engine of the football dashboard backend:  *)
(* the status normalisers, the header, scoring and boxscore mappers, the   *)
(* scoreboard list builders and the two HTTP handlers of app/main.py.      *)
(*                                                                         *)
(* JSON values are tagged records (JNull, JStr, JInt, JBool); a string is  *)
(* a sequence of one-character strings so that lower(), strip(), split()   *)
(* and the substring test are computed and not assumed.                    *)
(***************************************************************************)
EXTENDS Integers, Sequences, FiniteSets, TLC

VARIABLES
    call,       \* the mapper call being made: [fn |-> name, arg |-> its argument]
    ret,        \* what that call returned, or that it raised
    pc,         \* position of the HTTP handler being served
    endpoint,   \* which handler: "live" (/games/{id}/live) or "today" (/games/today)
    upstream,   \* sequence of upstream requests made by the handler so far
    payload,    \* the payload variable of the handler
    responses,  \* sequence of HTTP responses the handler has produced
    _data,      \* TTLCache._data: for each key its (timestamp, value) entry, if any
    now,        \* what time.time() returns
    last_set,   \* history: for each key the time and value of its latest set, if any
    threads     \* for each request thread, where it is inside a cache call and its locals

vars ==
    <<call, ret, pc, endpoint, upstream, payload, responses, _data, now, last_set, threads>>

mapperVars == <<call, ret>>
handlerVars == <<pc, endpoint, upstream, payload, responses>>
cacheVars == <<_data, now, last_set, threads>>

----------------------------------------------------------------------------
(* JSON values and Python's truthiness                                     *)

JNull == [t |-> "null"]
JStr(s) == [t |-> "str", s |-> s]
JInt(n) == [t |-> "int", n |-> n]
JBool(b) == [t |-> "bool", b |-> b]
\* a key that the object does not have (dict.get then gives its default)
JAbsent == [t |-> "absent"]

\* bool(v), as used by `v or default`
Truthy(v) ==
    CASE v.t \in {"null", "absent"} -> FALSE
      [] v.t = "str" -> v.s # <<>>
      [] v.t = "int" -> v.n # 0
      [] v.t = "bool" -> v.b
      [] v.t = "dict" -> DOMAIN v # {"t"}
      [] OTHER -> TRUE

\* `v or d`
Or(v, d) == IF Truthy(v) THEN v ELSE d

\* {} and d.get(k)
EmptyDict == [t |-> "dict"]
DictGet(d, k) == IF k \in DOMAIN d THEN d[k] ELSE JAbsent

----------------------------------------------------------------------------
(* Strings                                                                 *)

UpperToLower ==
    "A" :> "a" @@ "B" :> "b" @@ "C" :> "c" @@ "D" :> "d" @@ "E" :> "e" @@ "F" :> "f" @@ "G" :> "g" @@ "H" :> "h" @@ "I" :> "i" @@ "J" :> "j" @@ "K" :> "k" @@ "L" :> "l" @@ "M" :> "m" @@ "N" :> "n" @@ "O" :> "o" @@ "P" :> "p" @@ "Q" :> "q" @@ "R" :> "r" @@ "S" :> "s" @@ "T" :> "t" @@ "U" :> "u" @@ "V" :> "v" @@ "W" :> "w" @@ "X" :> "x" @@ "Y" :> "y" @@ "Z" :> "z"

\* str.lower()
Lower(s) == [i \in 1..Len(s) |-> IF s[i] \in DOMAIN UpperToLower THEN UpperToLower[s[i]] ELSE s[i]]

IsSpace(c) == c = " "

RECURSIVE LStrip(_)
LStrip(s) == IF s # <<>> /\ IsSpace(Head(s)) THEN LStrip(Tail(s)) ELSE s

RECURSIVE RStrip(_)
RStrip(s) == IF s # <<>> /\ IsSpace(s[Len(s)]) THEN RStrip(SubSeq(s, 1, Len(s) - 1)) ELSE s

\* str.strip()
Strip(s) == RStrip(LStrip(s))

\* `sub in s`
Contains(sub, s) == \E i \in 0..(Len(s) - Len(sub)) : SubSeq(s, i + 1, i + Len(sub)) = sub

DigitVal ==
    "0" :> 0 @@ "1" :> 1 @@ "2" :> 2 @@ "3" :> 3 @@ "4" :> 4 @@ "5" :> 5 @@ "6" :> 6 @@ "7" :> 7 @@ "8" :> 8 @@ "9" :> 9

DigitChar == <<"0", "1", "2", "3", "4", "5", "6", "7", "8", "9">>

IsDigits(s) == s # <<>> /\ \A i \in 1..Len(s) : s[i] \in DOMAIN DigitVal

RECURSIVE DigitsValue(_)
DigitsValue(s) ==
    IF s = <<>> THEN 0 ELSE 10 * DigitsValue(SubSeq(s, 1, Len(s) - 1)) + DigitVal[s[Len(s)]]

\* int(s) for a string: surrounding whitespace and one sign are accepted
PyIntOfStr(s) ==
    LET t == Strip(s)
        signed == t # <<>> /\ Head(t) \in {"+", "-"}
        body == IF signed THEN Tail(t) ELSE t
    IN  IF IsDigits(body)
        THEN [ok |-> TRUE, n |-> IF signed /\ Head(t) = "-" THEN 0 - DigitsValue(body) ELSE DigitsValue(body)]
        ELSE [ok |-> FALSE, n |-> 0]

RECURSIVE NatToStr(_)
NatToStr(n) == IF n < 10 THEN <<DigitChar[n + 1]>> ELSE NatToStr(n \div 10) \o <<DigitChar[(n % 10) + 1]>>

IntToStr(n) == IF n < 0 THEN <<"-">> \o NatToStr(0 - n) ELSE NatToStr(n)

\* isinstance(v, int): a bool is an int in Python
IsInstanceInt(v) == v.t \in {"int", "bool"}
IntOf(v) == IF v.t = "int" THEN v.n ELSE IF v.b THEN 1 ELSE 0

\* int(v): ValueError or TypeError is reported as ok = FALSE
PyInt(v) ==
    CASE v.t = "int" -> [ok |-> TRUE, n |-> v.n]
      [] v.t = "bool" -> [ok |-> TRUE, n |-> IF v.b THEN 1 ELSE 0]
      [] v.t = "str" -> PyIntOfStr(v.s)
      [] OTHER -> [ok |-> FALSE, n |-> 0]

\* string constants of the source

s_empty == <<>>
s_pre == <<"p", "r", "e">>
s_in == <<"i", "n">>
s_post == <<"p", "o", "s", "t">>
s_halftime == <<"h", "a", "l", "f", "t", "i", "m", "e">>
s_final == <<"f", "i", "n", "a", "l">>
s_delayed == <<"d", "e", "l", "a", "y", "e", "d">>
s_scheduled == <<"s", "c", "h", "e", "d", "u", "l", "e", "d">>
s_pregame == <<"p", "r", "e", "g", "a", "m", "e">>
s_upcoming == <<"u", "p", "c", "o", "m", "i", "n", "g">>
s_pre_game == <<"p", "r", "e", "-", "g", "a", "m", "e">>
s_in_progress == <<"i", "n", " ", "p", "r", "o", "g", "r", "e", "s", "s">>
s_in_progress_us == <<"i", "n", "_", "p", "r", "o", "g", "r", "e", "s", "s">>
s_live == <<"l", "i", "v", "e">>
s_half == <<"h", "a", "l", "f">>
s_completed == <<"c", "o", "m", "p", "l", "e", "t", "e", "d">>
s_end_of_game == <<"e", "n", "d", " ", "o", "f", " ", "g", "a", "m", "e">>
s_postgame == <<"p", "o", "s", "t", "g", "a", "m", "e">>
s_postponed == <<"p", "o", "s", "t", "p", "o", "n", "e", "d">>
s_canceled == <<"c", "a", "n", "c", "e", "l", "e", "d">>
s_cancelled == <<"c", "a", "n", "c", "e", "l", "l", "e", "d">>

\* raw provider strings used as inputs
s_IN_upper == <<"I", "N">>
s_STATUS_SCHEDULED == <<"S", "T", "A", "T", "U", "S", "_", "S", "C", "H", "E", "D", "U", "L", "E", "D">>
s_STATUS_IN_PROGRESS == <<"S", "T", "A", "T", "U", "S", "_", "I", "N", "_", "P", "R", "O", "G", "R", "E", "S", "S">>
s_STATUS_HALFTIME == <<"S", "T", "A", "T", "U", "S", "_", "H", "A", "L", "F", "T", "I", "M", "E">>
s_STATUS_FINAL == <<"S", "T", "A", "T", "U", "S", "_", "F", "I", "N", "A", "L">>
s_STATUS_DELAYED == <<"S", "T", "A", "T", "U", "S", "_", "D", "E", "L", "A", "Y", "E", "D">>
s_STATUS_POSTPONED == <<"S", "T", "A", "T", "U", "S", "_", "P", "O", "S", "T", "P", "O", "N", "E", "D">>
s_Halftime_desc == <<"H", "a", "l", "f", "t", "i", "m", "e">>
s_Final_desc == <<"F", "i", "n", "a", "l">>
s_Delayed_desc == <<"D", "e", "l", "a", "y", "e", "d">>
s_Scheduled_desc == <<"S", "c", "h", "e", "d", "u", "l", "e", "d">>
s_InProgress_desc == <<"I", "n", " ", "P", "r", "o", "g", "r", "e", "s", "s">>
s_Postponed_desc == <<"P", "o", "s", "t", "p", "o", "n", "e", "d">>
s_Final_padded == <<" ", "F", "i", "n", "a", "l", " ">>
s_HALFTIME_upper == <<"H", "A", "L", "F", "T", "I", "M", "E">>
s_suspended == <<"s", "u", "s", "p", "e", "n", "d", "e", "d">>
s_finalized == <<"f", "i", "n", "a", "l", "i", "z", "e", "d">>

----------------------------------------------------------------------------
(* Outcome of a call: a returned value or a raised exception               *)

Return(v) == [done |-> TRUE, raised |-> FALSE, val |-> v]
Raise(e) == [done |-> TRUE, raised |-> TRUE, exc |-> e]
Pending == [done |-> FALSE]
NoCall == [fn |-> "none"]

----------------------------------------------------------------------------
(* app/main.py: _normalize_game_status                                     *)

\* a status.type object; an absent key reads as None through dict.get
StatusType(state, name, description, completed, period, clock) ==
    [t |-> "dict", state |-> state, name |-> name, description |-> description,
     completed |-> completed, period |-> period, displayClock |-> clock]

EmptyStatusType == StatusType(JNull, JNull, JNull, JNull, JNull, JNull)

RedZoneYardLine == 80

allowed_states == {s_pre, s_in, s_post, s_halftime, s_final, s_delayed}

\* the if/elif chain entered when state is not an allowed state
NormalizeFallback(state, name, description, completed) ==
    IF Contains(s_halftime, name) \/ Contains(s_halftime, description) THEN s_halftime
    ELSE IF Contains(s_delayed, name) \/ Contains(s_delayed, description) THEN s_delayed
    ELSE IF completed THEN
        (IF Contains(s_final, description) \/ Contains(s_final, name) THEN s_final ELSE s_post)
    ELSE IF state = s_empty THEN
        (IF Contains(s_scheduled, name) \/ Contains(s_pregame, name) THEN s_pre ELSE s_in)
    ELSE state

_normalize_game_status(status) ==
    LET st == IF status.t = "dict" THEN status ELSE EmptyStatusType
        rawState == Or(st.state, JStr(s_empty))
        rawName == Or(st.name, JStr(s_empty))
        rawDesc == Or(st.description, JStr(s_empty))
    IN  IF rawState.t # "str" \/ rawName.t # "str" \/ rawDesc.t # "str"
        THEN Raise("AttributeError")    \* .lower() of a value that is no string
        ELSE LET state == Lower(rawState.s)
                 completed == Truthy(st.completed)
                 name == Lower(rawName.s)
                 description == Lower(rawDesc.s)
                 final == IF state \in allowed_states THEN state
                          ELSE NormalizeFallback(state, name, description, completed)
             IN  Return([status |-> final, period |-> st.period, clock |-> st.displayClock])

----------------------------------------------------------------------------
(* app/cfb_scoreboard.py: _normalize_cfb_status                            *)

_normalize_cfb_status_flag_inverted(raw_status, completed) ==
    LET s == Strip(Lower(Or(raw_status, JStr(s_empty)).s))
    IN  IF s \in {s_scheduled, s_upcoming, s_pre_game, s_pregame} THEN s_pre
        ELSE IF s \in {s_in_progress, s_in_progress_us, s_live} THEN s_in
        ELSE IF s \in {s_halftime, s_half} THEN s_halftime
        ELSE IF s \in {s_final, s_completed, s_end_of_game} THEN s_final
        ELSE IF s \in {s_postgame, s_post} THEN s_post
        ELSE IF s \in {s_delayed, s_postponed, s_canceled, s_cancelled} THEN s_delayed
        ELSE IF completed = JBool(FALSE) THEN s_final
        ELSE s_pre

_normalize_cfb_status(raw_status, completed) ==
    LET s == Strip(Lower(Or(raw_status, JStr(s_empty)).s))
    IN  IF s \in {s_scheduled, s_upcoming, s_pre_game, s_pregame} THEN s_pre
        ELSE IF s \in {s_in_progress, s_in_progress_us, s_live} THEN s_in
        ELSE IF s \in {s_halftime, s_half} THEN s_halftime
        ELSE IF s \in {s_final, s_completed, s_end_of_game} THEN s_final
        ELSE IF s \in {s_postgame, s_post} THEN s_post
        ELSE IF s \in {s_delayed, s_postponed, s_canceled, s_cancelled} THEN s_delayed
        ELSE IF completed = JBool(TRUE) THEN s_final
        ELSE IF completed = JBool(FALSE) THEN s_pre
        ELSE s_pre

----------------------------------------------------------------------------
(* Calls of the two status normalisers                                     *)

GameStateInputs ==
    {JNull, JStr(s_empty), JStr(s_pre), JStr(s_in), JStr(s_post), JStr(s_halftime),
     JStr(s_final), JStr(s_delayed), JStr(s_IN_upper), JStr(s_postponed),
     JStr(s_suspended), JInt(2)}

GameNameInputs ==
    {JNull, JStr(s_STATUS_SCHEDULED), JStr(s_STATUS_IN_PROGRESS), JStr(s_STATUS_HALFTIME),
     JStr(s_STATUS_FINAL), JStr(s_STATUS_DELAYED), JStr(s_STATUS_POSTPONED)}

GameDescriptionInputs ==
    {JNull, JStr(s_Scheduled_desc), JStr(s_InProgress_desc), JStr(s_Halftime_desc),
     JStr(s_Final_desc), JStr(s_Delayed_desc), JStr(s_Postponed_desc)}

CompletedInputs == {JNull, JBool(TRUE), JBool(FALSE)}

CfbStatusInputs ==
    {JNull, JStr(s_empty)}
    \cup {JStr(s) : s \in {s_scheduled, s_upcoming, s_pre_game, s_pregame, s_in_progress,
                           s_in_progress_us, s_live, s_halftime, s_half, s_final,
                           s_completed, s_end_of_game, s_postgame, s_post, s_delayed,
                           s_postponed, s_canceled, s_cancelled}}
    \cup {JStr(s) : s \in {s_Final_padded, s_HALFTIME_upper, s_InProgress_desc,
                           s_suspended, s_finalized, s_STATUS_FINAL}}

\* the calls a behaviour of SpecStatus may start with
GameStatusCalls ==
    {[fn |-> "_normalize_game_status",
      arg |-> StatusType(state, name, description, completed, JNull, JNull)] :
        state \in GameStateInputs, name \in GameNameInputs,
        description \in GameDescriptionInputs, completed \in CompletedInputs}

\* status.type that is no object at all (null, or a bare string)
GameStatusNonDictCalls ==
    {[fn |-> "_normalize_game_status", arg |-> arg] : arg \in {JNull, JStr(s_final)}}

CfbStatusCalls ==
    {[fn |-> "_normalize_cfb_status",
      arg |-> [raw_status |-> raw_status, completed |-> completed]] :
        raw_status \in CfbStatusInputs, completed \in CompletedInputs}

CallNormalizeGameStatus ==
    /\ call.fn = "_normalize_game_status"
    /\ ~ret.done
    /\ ret' = _normalize_game_status(call.arg)
    /\ UNCHANGED <<call, handlerVars, cacheVars>>

CallNormalizeCfbStatus ==
    /\ call.fn = "_normalize_cfb_status"
    /\ ~ret.done
    /\ ret' = Return(_normalize_cfb_status(call.arg.raw_status, call.arg.completed))
    /\ UNCHANGED <<call, handlerVars, cacheVars>>

\* app/utils/cache.py: the keys in use, and the cache as constructed
CacheKeys == {"a", "b"}
NoEntry == [present |-> FALSE]
Entry(ts, val) == [present |-> TRUE, ts |-> ts, val |-> val]

\* request threads of the worker pool, and a thread that is in no cache call
Threads == {1, 2}
ThreadIdle == [at |-> "idle", outcome |-> "none"]

CacheEmpty ==
    /\ _data = [k \in CacheKeys |-> NoEntry]
    /\ now = 0
    /\ last_set = [k \in CacheKeys |-> NoEntry]
    /\ threads = [t \in Threads |-> ThreadIdle]

HandlerIdle ==
    /\ pc = "idle"
    /\ endpoint = "none"
    /\ upstream = <<>>
    /\ payload = JNull
    /\ responses = <<>>

InitStatus ==
    /\ call \in GameStatusCalls \cup GameStatusNonDictCalls \cup CfbStatusCalls
    /\ ret = Pending
    /\ HandlerIdle
    /\ CacheEmpty

NextStatus ==
    \/ CallNormalizeGameStatus
    \/ CallNormalizeCfbStatus

SpecStatus == InitStatus /\ [][NextStatus]_vars

(* C1: for every status-type object _normalize_game_status returns a status
   that is one of pre, in, halftime, post, final, delayed. *)
C1_StatusAlwaysCanonical ==
    (call.fn = "_normalize_game_status" /\ ret.done) =>
        (~ret.raised /\ ret.val.status \in allowed_states)

\* the synonym table of the CFBD normaliser: canonical value -> raw synonyms
CfbSynonyms ==
    [canonical \in allowed_states |->
        CASE canonical = s_pre -> {s_scheduled, s_upcoming, s_pre_game, s_pregame}
          [] canonical = s_in -> {s_in_progress, s_in_progress_us, s_live}
          [] canonical = s_halftime -> {s_halftime, s_half}
          [] canonical = s_final -> {s_final, s_completed, s_end_of_game}
          [] canonical = s_post -> {s_postgame, s_post}
          [] canonical = s_delayed -> {s_delayed, s_postponed, s_canceled, s_cancelled}]

CfbKey(raw) == IF raw.t = "str" THEN Strip(Lower(raw.s)) ELSE s_empty

(* C2: _normalize_cfb_status returns the canonical value of the synonym set
   that contains the lower-cased, trimmed raw string; a string in no synonym
   set gives final when completed is true and pre when completed is false
   or absent. *)
C2_CfbStatusBySynonymThenFlag ==
    (call.fn = "_normalize_cfb_status" /\ ret.done) =>
        LET key == CfbKey(call.arg.raw_status)
            matching == {c \in allowed_states : key \in CfbSynonyms[c]}
        IN  /\ ~ret.raised
            /\ matching # {} => ret.val \in matching
            /\ matching = {} =>
                   ret.val = (IF call.arg.completed = JBool(TRUE) THEN s_final ELSE s_pre)

\* an unrecognised string with completed = false has been normalised to pre,
\* and a padded, capitalised synonym to its canonical value
C2_Witness ==
    /\ call.fn = "_normalize_cfb_status"
    /\ ret.done
    /\ \/ call.arg.raw_status = JStr(s_suspended) /\ call.arg.completed = JBool(FALSE)
       \/ call.arg.raw_status = JStr(s_Final_padded) /\ ret.val = s_final

----------------------------------------------------------------------------
(* app/main.py: _map_team_header and _map_header                           *)

Team(id) == [t |-> "dict", id |-> id]
CompetitorWithLines(homeAway, team, score, linescores) ==
    [t |-> "dict", homeAway |-> homeAway, team |-> team, score |-> score,
     linescores |-> linescores]
Competitor(homeAway, team, score) == CompetitorWithLines(homeAway, team, score, <<>>)
Situation(possession, down, distance, yardLine, isRedZone) ==
    [t |-> "dict", possession |-> possession, down |-> down, distance |-> distance,
     yardLine |-> yardLine, isRedZone |-> isRedZone]
PossessionObject(id) == [t |-> "dict", id |-> id]
Competition(statusType, competitors, situation) ==
    [t |-> "dict", status |-> [t |-> "dict", type |-> statusType],
     competitors |-> competitors, situation |-> situation]
\* a summary payload; a list that is absent or null reads as the empty list
FullPayload(competitions, scoringPlays, boxscore) ==
    [t |-> "dict", header |-> [t |-> "dict", competitions |-> competitions],
     scoringPlays |-> scoringPlays, boxscore |-> boxscore]
SummaryPayload(competitions) == FullPayload(competitions, <<>>, JNull)

\* str(v)
PyStr(v) ==
    CASE v.t = "null" -> <<"N", "o", "n", "e">>
      [] v.t = "str" -> v.s
      [] v.t = "int" -> IntToStr(v.n)
      [] v.t = "bool" -> IF v.b THEN <<"T", "r", "u", "e">> ELSE <<"F", "a", "l", "s", "e">>
      [] OTHER ->   \* repr of an object {'id': ...}
            <<"{", "'", "i", "d", "'", ":", " ">>
            \o (IF v.id.t = "str" THEN <<"'">> \o v.id.s \o <<"'">>
                ELSE IF v.id.t = "int" THEN IntToStr(v.id.n) ELSE <<"N", "o", "n", "e">>)
            \o <<"}">>

\* str(team.get("id") or "") with team = competitor.get("team") or {}
TeamIdOf(competitor) ==
    LET team == Or(competitor.team, Team(JNull))
    IN  PyStr(Or(team.id, JStr(s_empty)))

\* a competitor whose team key holds something that is neither null nor an object
TeamUnreadable(competitor) ==
    Truthy(competitor.team) /\ competitor.team.t # "dict"

_map_team_header(raw_competitor) ==
    IF TeamUnreadable(raw_competitor) THEN Raise("AttributeError")
    ELSE LET score_str == Or(raw_competitor.score, JStr(<<"0">>))
             parsed == PyInt(score_str)
         IN  Return([id |-> TeamIdOf(raw_competitor),
                     score |-> IF parsed.ok THEN parsed.n ELSE 0])

\* (c.get("homeAway") or "").lower() for each competitor, or that the loop raises
SideReadable(c) == c.t = "dict" /\ Or(c.homeAway, JStr(s_empty)).t = "str"
SideOf(c) == Lower(Or(c.homeAway, JStr(s_empty)).s)

s_home == <<"h", "o", "m", "e">>
s_away == <<"a", "w", "a", "y">>

\* LastOfSide with a fallback by position when no competitor carries the flag:
\* the first entry for home, the second for away
LastOfSide_index_fallback(competitors, side) ==
    LET idx == {i \in 1..Len(competitors) : SideOf(competitors[i]) = side}
        pos == IF side = s_home THEN 1 ELSE 2
    IN  IF idx # {} THEN competitors[CHOOSE i \in idx : \A j \in idx : j <= i]
        ELSE IF pos <= Len(competitors) THEN competitors[pos]
        ELSE JNull

\* the competitor the loop leaves in home_comp / away_comp: the last one of that side
LastOfSide(competitors, side) ==
    LET idx == {i \in 1..Len(competitors) : SideOf(competitors[i]) = side}
    IN  IF idx = {} THEN JNull
        ELSE competitors[CHOOSE i \in idx : \A j \in idx : j <= i]

\* the try block that resolves possession_side
PossessionSide(situation, home_comp, away_comp) ==
    IF TeamUnreadable(home_comp) \/ TeamUnreadable(away_comp) THEN "none"
    ELSE LET possession_team_id == Strip(PyStr(Or(situation.possession, JStr(s_empty))))
             home_team_id == TeamIdOf(home_comp)
             away_team_id == TeamIdOf(away_comp)
         IN  IF possession_team_id = <<>> THEN "none"
             ELSE IF possession_team_id = home_team_id THEN "home"
             ELSE IF possession_team_id = away_team_id THEN "away"
             ELSE "none"

\* red_zone as _map_header computes it
HeaderRedZone(situation) ==
    IF IsInstanceInt(situation.yardLine)
    THEN IntOf(situation.yardLine) >= RedZoneYardLine
    ELSE Truthy(situation.isRedZone)

IntOrNone(v) == IF IsInstanceInt(v) THEN v ELSE JNull

\* pydantic's validation of Header: status is a Literal, quarter an Optional[int]
HeaderValid(state, quarter) ==
    /\ state \in allowed_states
    /\ quarter.t = "null" \/ PyInt(quarter).ok

EmptySituation == Situation(JNull, JNull, JNull, JNull, JNull)

_map_header(p, game_id) ==
    IF p.t # "dict" THEN Raise("AttributeError")
    ELSE
    LET header == Or(p.header, [t |-> "dict", competitions |-> <<>>])
        competitions == header.competitions
    IN  IF competitions = <<>> THEN Raise("KeyError")
        ELSE
        LET comp == competitions[1]
        IN  IF comp.t # "dict" THEN Raise("AttributeError")
            ELSE
            LET raw_status == comp.status
                status_type == IF raw_status.t = "dict" THEN Or(raw_status.type, EmptyStatusType)
                               ELSE EmptyStatusType
                normalized == _normalize_game_status(status_type)
                competitors == comp.competitors
            IN  IF normalized.raised THEN normalized
                ELSE IF \E i \in 1..Len(competitors) : ~SideReadable(competitors[i])
                THEN Raise("AttributeError")
                ELSE
                LET home_comp == LastOfSide(competitors, s_home)
                    away_comp == LastOfSide(competitors, s_away)
                IN  IF home_comp = JNull \/ away_comp = JNull THEN Raise("KeyError")
                    ELSE
                    LET situation == Or(comp.situation, EmptySituation)
                        home_team == _map_team_header(home_comp)
                        away_team == _map_team_header(away_comp)
                    IN  IF situation.t # "dict" THEN Raise("AttributeError")
                        ELSE IF home_team.raised THEN home_team
                        ELSE IF away_team.raised THEN away_team
                        ELSE IF ~HeaderValid(normalized.val.status, normalized.val.period)
                        THEN Raise("ValidationError")
                        ELSE Return(
                            [game_id |-> game_id,
                             status |-> normalized.val.status,
                             home_team |-> home_team.val,
                             away_team |-> away_team.val,
                             quarter |-> normalized.val.period,
                             clock |-> normalized.val.clock,
                             possession |-> PossessionSide(situation, home_comp, away_comp),
                             down |-> IntOrNone(situation.down),
                             distance |-> IntOrNone(situation.distance),
                             yard_line |-> IntOrNone(situation.yardLine),
                             red_zone |-> HeaderRedZone(situation)])

----------------------------------------------------------------------------
(* app/main.py: get_games_today, the try block that maps the events        *)

Event(id, competitions) == [t |-> "dict", id |-> id, competitions |-> competitions]
ScoreboardPayload(events) == [t |-> "dict", events |-> events]

\* is_red as get_games_today computes it
TodayRedZone(situation) ==
    \/ Truthy(situation.isRedZone)
    \/ IsInstanceInt(situation.yardLine) /\ IntOf(situation.yardLine) >= RedZoneYardLine

\* one iteration of the loop over events: a game, a `continue`, or an exception
TodayEvent(event) ==
    IF event.t # "dict" THEN [kind |-> "raise", exc |-> "AttributeError"]
    ELSE
    LET competitions == event.competitions
    IN  IF competitions = <<>> THEN [kind |-> "skip"]
        ELSE
        LET comp == competitions[1]
        IN  IF comp.t # "dict" THEN [kind |-> "raise", exc |-> "AttributeError"]
            ELSE
            LET raw_status == comp.status
                status_type == IF raw_status.t = "dict" THEN Or(raw_status.type, EmptyStatusType)
                               ELSE EmptyStatusType
                normalized == _normalize_game_status(status_type)
                competitors == comp.competitors
            IN  IF normalized.raised THEN [kind |-> "raise", exc |-> normalized.exc]
                ELSE IF \E i \in 1..Len(competitors) : ~SideReadable(competitors[i])
                THEN [kind |-> "raise", exc |-> "AttributeError"]
                ELSE
                LET home_comp == LastOfSide(competitors, s_home)
                    away_comp == LastOfSide(competitors, s_away)
                IN  IF home_comp = JNull \/ away_comp = JNull THEN [kind |-> "skip"]
                    ELSE
                    LET home_header == _map_team_header(home_comp)
                        away_header == _map_team_header(away_comp)
                        situation == Or(comp.situation, EmptySituation)
                    IN  IF home_header.raised \/ away_header.raised \/ situation.t # "dict"
                        THEN [kind |-> "raise", exc |-> "AttributeError"]
                        ELSE [kind |-> "game",
                              game |-> [game_id |-> PyStr(Or(event.id, JStr(s_empty))),
                                        status |-> normalized.val.status,
                                        quarter |-> normalized.val.period,
                                        clock |-> normalized.val.clock,
                                        home_team |-> home_header.val,
                                        away_team |-> away_header.val,
                                        red_zone |-> TodayRedZone(situation)]]

RECURSIVE TodayGames(_)
TodayGames(events) ==
    IF events = <<>> THEN Return(<<>>)
    ELSE LET first == TodayEvent(Head(events))
         IN  IF first.kind = "raise" THEN Raise(first.exc)
             ELSE LET rest == TodayGames(Tail(events))
                  IN  IF rest.raised THEN rest
                      ELSE IF first.kind = "skip" THEN rest
                      ELSE Return(<<first.game>> \o rest.val)

\* the events loop of get_games_today on a decoded scoreboard payload
get_games_today_body(p) ==
    IF p.t # "dict" THEN Raise("AttributeError")
    ELSE TodayGames(p.events)

----------------------------------------------------------------------------
(* Calls of the header mapper                                              *)

s_12 == <<"1", "2">>
s_8 == <<"8">>
s_99 == <<"9", "9">>
s_12_lpad == <<" ", "1", "2">>
s_12_padded == <<" ", "1", "2", " ">>
s_80 == <<"8", "0">>
s_clock == <<"1", "0", ":", "2", "3">>
s_TEST123 == <<"T", "E", "S", "T", "1", "2", "3">>

TeamIdInputs == {JStr(s_12), JStr(s_8), JInt(12), JStr(s_12_lpad), JNull}

PossessionInputs ==
    {JNull, JStr(s_empty), JStr(s_12), JStr(s_8), JStr(s_99), JInt(12), JInt(8),
     JStr(s_12_lpad), JStr(s_12_padded), PossessionObject(JStr(s_12))}

YardLineInputs == {JNull, JInt(75), JInt(79), JInt(80), JInt(95), JStr(s_80)}

RedZoneFlagInputs == {JNull, JBool(TRUE), JBool(FALSE)}

InProgressStatus ==
    StatusType(JStr(s_in), JStr(s_STATUS_IN_PROGRESS), JStr(s_InProgress_desc),
               JBool(FALSE), JInt(2), JStr(s_clock))

SuspendedStatus ==
    StatusType(JStr(s_suspended), JNull, JNull, JBool(FALSE), JNull, JNull)

HeaderCompetitions ==
    {Competition(st, order, Situation(poss, JInt(2), JInt(5), yl, rz)) :
        st \in {InProgressStatus},
        order \in UNION {{<<Competitor(JStr(s_home), Team(h), JStr(<<"7">>)),
                            Competitor(JStr(s_away), Team(a), JInt(3))>>,
                          <<Competitor(JStr(s_away), Team(a), JInt(3)),
                            Competitor(JStr(s_home), Team(h), JStr(<<"7">>))>>} :
                          h \in TeamIdInputs, a \in TeamIdInputs},
        poss \in PossessionInputs, yl \in YardLineInputs, rz \in RedZoneFlagInputs}

\* competitor lists that lack a side, a flag or an entry
IncompleteCompetitors ==
    {<<>>,
     <<Competitor(JStr(s_home), Team(JStr(s_12)), JStr(<<"7">>))>>,
     <<Competitor(JStr(s_away), Team(JStr(s_8)), JInt(3))>>,
     <<Competitor(JStr(s_home), Team(JStr(s_12)), JStr(<<"7">>)),
       Competitor(JStr(s_home), Team(JStr(s_8)), JInt(3))>>,
     <<Competitor(JStr(s_away), Team(JStr(s_12)), JStr(<<"7">>)),
       Competitor(JStr(s_away), Team(JStr(s_8)), JInt(3))>>,
     <<Competitor(JNull, Team(JStr(s_12)), JStr(<<"7">>)),
       Competitor(JNull, Team(JStr(s_8)), JInt(3))>>,
     <<Competitor(JAbsent, Team(JStr(s_12)), JStr(<<"7">>)),
       Competitor(JAbsent, Team(JStr(s_8)), JInt(3))>>,
     <<Competitor(JStr(s_home), Team(JStr(s_12)), JStr(<<"7">>)),
       Competitor(JNull, Team(JStr(s_8)), JInt(3))>>}

IncompletePayloads ==
    {SummaryPayload(<<>>)}
    \cup {SummaryPayload(<<Competition(InProgressStatus, competitors, JNull)>>) :
            competitors \in IncompleteCompetitors}

MapHeaderCalls ==
    {[fn |-> "_map_header", arg |-> SummaryPayload(<<comp>>)] : comp \in HeaderCompetitions}
    \cup {[fn |-> "_map_header", arg |-> p] : p \in IncompletePayloads}

\* the same competitions, each as the only event of a scoreboard
TodayOneEventCalls ==
    {[fn |-> "get_games_today", arg |-> ScoreboardPayload(<<Event(JStr(s_TEST123), <<comp>>)>>)] :
        comp \in {c \in HeaderCompetitions :
                    /\ TeamIdOf(c.competitors[1]) \in {s_12, s_8}
                    /\ TeamIdOf(c.competitors[2]) \in {s_12, s_8}
                    /\ c.situation.possession = JNull}}

CallMapHeader ==
    /\ call.fn = "_map_header"
    /\ ~ret.done
    /\ ret' = _map_header(call.arg, s_TEST123)
    /\ UNCHANGED <<call, handlerVars, cacheVars>>

CallGamesTodayBody ==
    /\ call.fn = "get_games_today"
    /\ ~ret.done
    /\ ret' = get_games_today_body(call.arg)
    /\ UNCHANGED <<call, handlerVars, cacheVars>>

InitHeader ==
    /\ call \in MapHeaderCalls \cup TodayOneEventCalls
    /\ ret = Pending
    /\ HandlerIdle
    /\ CacheEmpty

NextHeader ==
    \/ CallMapHeader
    \/ CallGamesTodayBody

SpecHeader == InitHeader /\ [][NextHeader]_vars

\* the situation of the first competition of a _map_header or get_games_today call
CallSituation ==
    IF call.fn = "_map_header" THEN call.arg.header.competitions[1].situation
    ELSE call.arg.events[1].competitions[1].situation

\* the red-zone rule of the specification: explicit flag OR yard line >= 80
RedZoneRule(situation) ==
    \/ situation.isRedZone = JBool(TRUE)
    \/ situation.yardLine.t = "int" /\ situation.yardLine.n >= 80

(* C9: the header's red_zone flag equals (explicit isRedZone flag is true) OR
   (yardLine is an integer and yardLine >= 80) for every combination of flag
   and yard line, and get_games_today produces the same value for the same
   situation. *)
C9_RedZoneIsFlagOrYardLine ==
    /\ (call.fn = "_map_header" /\ ret.done /\ ~ret.raised) =>
           ret.val.red_zone = RedZoneRule(CallSituation)
    /\ (call.fn = "get_games_today" /\ ret.done /\ ~ret.raised /\ Len(ret.val) = 1) =>
           ret.val[1].red_zone = RedZoneRule(CallSituation)

\* a _map_header call that returned a Header whose two team ids are distinct and
\* non-empty, with possession absent or given as a bare id
C10_Case ==
    /\ call.fn = "_map_header"
    /\ ret.done
    /\ ~ret.raised
    /\ ret.val.home_team.id # <<>>
    /\ ret.val.away_team.id # <<>>
    /\ ret.val.home_team.id # ret.val.away_team.id
    /\ CallSituation.possession.t \in {"null", "str", "int"}

\* possession as the statement requires it for a raw id given as a string
PossessionRule(absent, id, header) ==
    IF absent THEN "none"
    ELSE IF id = header.home_team.id THEN "home"
    ELSE IF id = header.away_team.id THEN "away"
    ELSE "none"

(* C10 as stated: possession is home when the raw possession id equals the home
   team's id, away when it equals the away team's id, and null when it equals
   neither or is absent. *)
C10_PossessionByRawId ==
    C10_Case =>
        ret.val.possession =
            PossessionRule(CallSituation.possession = JNull,
                           PyStr(CallSituation.possession), ret.val)

\* the id an object-valued possession carries: its id, else its nested team id
ObjectPossessionId(possession) ==
    IF "id" \in DOMAIN possession THEN PyStr(possession.id)
    ELSE PyStr(possession.team.id)

(* C25: when situation.possession is an object whose id (or nested team id)
   equals the home team's id the header's possession is home, and away when it
   equals the away team's id: the object resolves as its bare id would. *)
C25_ObjectPossessionResolved ==
    (/\ call.fn = "_map_header"
     /\ ret.done
     /\ ~ret.raised
     /\ ret.val.home_team.id # ret.val.away_team.id
     /\ CallSituation.possession.t = "dict") =>
        /\ ObjectPossessionId(CallSituation.possession) = ret.val.home_team.id
                => ret.val.possession = "home"
        /\ ObjectPossessionId(CallSituation.possession) = ret.val.away_team.id
                => ret.val.possession = "away"

----------------------------------------------------------------------------
(* app/main.py: _extract_linescore_points and _map_scoring                 *)

Linescore(period, value, displayValue) ==
    [t |-> "dict", period |-> period, value |-> value, displayValue |-> displayValue]

\* value_int of one line-score entry (the displayed value is an integer string here)
LinescoreValue(ls) ==
    LET raw_value == IF IsInstanceInt(ls.value) THEN ls.value ELSE ls.displayValue
    IN  IF IsInstanceInt(raw_value) THEN [ok |-> TRUE, n |-> IntOf(raw_value)]
        ELSE IF raw_value.t = "str" THEN PyIntOfStr(raw_value.s)
        ELSE [ok |-> FALSE, n |-> 0]

\* points_by_q built by the loop over linescores: a later entry of a period overwrites
PointsByQuarter(linescores) ==
    LET good == {i \in 1..Len(linescores) :
                    IsInstanceInt(linescores[i].period) /\ LinescoreValue(linescores[i]).ok}
        last(q) == CHOOSE i \in good :
                      /\ IntOf(linescores[i].period) = q
                      /\ \A j \in good : IntOf(linescores[j].period) = q => j <= i
    IN  [q \in {IntOf(linescores[i].period) : i \in good} |-> LinescoreValue(linescores[last(q)]).n]

EmptyPoints == [q \in {} |-> 0]

\* the first competitor of that side decides; Raise when an entry cannot be read
_extract_linescore_points(comp, side_key) ==
    LET competitors == comp.competitors
        idx == {i \in 1..Len(competitors) :
                   /\ \A j \in 1..i : SideReadable(competitors[j])
                   /\ SideOf(competitors[i]) = side_key}
        bad == {i \in 1..Len(competitors) : ~SideReadable(competitors[i])}
        first == CHOOSE i \in idx : \A j \in idx : i <= j
    IN  IF idx = {} THEN (IF bad = {} THEN Return(EmptyPoints) ELSE Raise("AttributeError"))
        ELSE IF \E k \in 1..Len(competitors[first].linescores) :
                    competitors[first].linescores[k].t # "dict"
        THEN Raise("AttributeError")
        ELSE Return(PointsByQuarter(competitors[first].linescores))

Get(f, q) == IF q \in DOMAIN f THEN f[q] ELSE 0

RECURSIVE SortedSeq(_)
SortedSeq(S) ==
    IF S = {} THEN <<>>
    ELSE LET m == CHOOSE x \in S : \A y \in S : x <= y
         IN  <<m>> \o SortedSeq(S \ {m})

\* QuarterSummary with the quarters in descending order
QuarterSummary_descending(home_points_by_q, away_points_by_q) ==
    LET quarters == SortedSeq(DOMAIN home_points_by_q \cup DOMAIN away_points_by_q)
        n == Len(quarters)
    IN  [i \in 1..n |->
            [quarter |-> quarters[n + 1 - i],
             home_points |-> Get(home_points_by_q, quarters[n + 1 - i]),
             away_points |-> Get(away_points_by_q, quarters[n + 1 - i])]]

\* the summary_by_quarter list built from two points-by-quarter maps
QuarterSummary(home_points_by_q, away_points_by_q) ==
    LET quarters == SortedSeq(DOMAIN home_points_by_q \cup DOMAIN away_points_by_q)
    IN  [i \in 1..Len(quarters) |->
            [quarter |-> quarters[i],
             home_points |-> Get(home_points_by_q, quarters[i]),
             away_points |-> Get(away_points_by_q, quarters[i])]]

PeriodInfo(number) == [t |-> "dict", number |-> number, value |-> JNull]
ClockInfo(displayValue) == [t |-> "dict", displayValue |-> displayValue, value |-> JNull]
ScoringType(name) == [t |-> "dict", shortDisplayName |-> JNull, name |-> name]
Athlete(displayName) ==
    [t |-> "dict", displayName |-> displayName, shortName |-> JNull, name |-> JNull]

\* one entry of scoringPlays
ScoringPlay(id, team, period, clock, text, scoringType, scoreValue, athletesInvolved) ==
    [t |-> "dict", id |-> id, team |-> team, period |-> period, clock |-> clock,
     text |-> text, scoringType |-> scoringType, scoreValue |-> scoreValue,
     statYardage |-> JNull, athletesInvolved |-> athletesInvolved]

\* p.get(key) or {} followed by .get: an AttributeError unless it is null or an object
Readable(v) == ~Truthy(v) \/ v.t = "dict"

PlayTeamId(p) == PyStr(Or(Or(p.team, Team(JNull)).id, JStr(s_empty)))

\* the fallback loop: tmp_home / tmp_away summed from the scoring plays
RECURSIVE FallbackPoints(_, _, _, _)
FallbackPoints(plays, home_id, away_id, acc) ==
    IF plays = <<>> THEN Return(acc)
    ELSE
    LET p == Head(plays)
    IN  IF p.t # "dict" \/ ~Readable(p.team) \/ ~Readable(p.period) THEN Raise("AttributeError")
        ELSE
        LET team_id == PlayTeamId(p)
            period_info == Or(p.period, PeriodInfo(JNull))
            q == Or(period_info.number, period_info.value)
            points == Or(p.scoreValue, JNull)
        IN  IF ~IsInstanceInt(q) \/ ~IsInstanceInt(points)
            THEN FallbackPoints(Tail(plays), home_id, away_id, acc)
            ELSE IF team_id = home_id
            THEN FallbackPoints(Tail(plays), home_id, away_id,
                    [acc EXCEPT !.home = [k \in DOMAIN acc.home \cup {IntOf(q)} |->
                        IF k = IntOf(q) THEN Get(acc.home, k) + IntOf(points) ELSE acc.home[k]]])
            ELSE IF team_id = away_id
            THEN FallbackPoints(Tail(plays), home_id, away_id,
                    [acc EXCEPT !.away = [k \in DOMAIN acc.away \cup {IntOf(q)} |->
                        IF k = IntOf(q) THEN Get(acc.away, k) + IntOf(points) ELSE acc.away[k]]])
            ELSE FallbackPoints(Tail(plays), home_id, away_id, acc)

s_touchdown == <<"t", "o", "u", "c", "h", "d", "o", "w", "n">>
s_td == <<"t", "d">>
s_field_goal == <<"f", "i", "e", "l", "d", " ", "g", "o", "a", "l">>
s_fg == <<"f", "g">>
s_safety == <<"s", "a", "f", "e", "t", "y">>
s_extra_point == <<"e", "x", "t", "r", "a", " ", "p", "o", "i", "n", "t">>
s_xp == <<"x", "p">>
s_two_point_hyphen == <<"t", "w", "o", "-", "p", "o", "i", "n", "t">>
s_two_point_space == <<"t", "w", "o", " ", "p", "o", "i", "n", "t">>
s_2pt == <<"2", "p", "t">>

\* play_type from the lower-cased scoring type name
PlayType(type_name) ==
    IF Contains(s_touchdown, type_name) \/ type_name = s_td THEN "TD"
    ELSE IF Contains(s_field_goal, type_name) \/ type_name = s_fg THEN "FG"
    ELSE IF Contains(s_safety, type_name) THEN "Safety"
    ELSE IF Contains(s_extra_point, type_name) \/ Contains(s_xp, type_name) THEN "XP"
    ELSE IF Contains(s_two_point_hyphen, type_name) \/ Contains(s_two_point_space, type_name)
            \/ Contains(s_2pt, type_name) THEN "2PT"
    ELSE "Other"

\* one iteration of the loop that builds plays: a play, a `continue`, or an exception
MapPlay(p, home_id, away_id) ==
    IF p.t # "dict" \/ ~Readable(p.team) THEN [kind |-> "raise"]
    ELSE
    LET team_id == PlayTeamId(p)
        team_side == IF team_id = home_id THEN "home"
                     ELSE IF team_id = away_id THEN "away" ELSE "none"
    IN  IF team_side = "none" THEN [kind |-> "skip"]
        ELSE IF ~Readable(p.period) \/ ~Readable(p.clock) \/ ~Readable(p.scoringType)
        THEN [kind |-> "raise"]
        ELSE IF p.athletesInvolved # <<>> /\ ~Readable(p.athletesInvolved[1])
        THEN [kind |-> "raise"]
        ELSE
        LET period_info == Or(p.period, PeriodInfo(JNull))
            q == Or(Or(period_info.number, period_info.value), JInt(0))
            quarter == IF IsInstanceInt(q) THEN IntOf(q) ELSE 0
            clock_info == Or(p.clock, ClockInfo(JNull))
            clock == Or(Or(clock_info.displayValue, clock_info.value), JStr(s_empty))
            description == Or(p.text, JStr(s_empty))
            scoring_type == Or(p.scoringType, ScoringType(JNull))
            raw_name == Or(Or(scoring_type.shortDisplayName, scoring_type.name), JStr(s_empty))
            a0 == IF p.athletesInvolved = <<>> THEN JNull
                  ELSE Or(p.athletesInvolved[1], Athlete(JNull))
            player_primary == IF a0 = JNull THEN JNull
                              ELSE Or(Or(a0.displayName, a0.shortName), a0.name)
            yards == IF IsInstanceInt(p.statYardage) THEN JInt(IntOf(p.statYardage))
                     ELSE IF p.statYardage.t = "str" /\ PyIntOfStr(p.statYardage.s).ok
                     THEN JInt(PyIntOfStr(p.statYardage.s).n)
                     ELSE JNull
            side_str == IF team_side = "home" THEN s_home ELSE s_away
        IN  IF raw_name.t # "str" THEN [kind |-> "raise"]
            ELSE
            [kind |-> "play",
             play |-> [id |-> IF Truthy(p.id) THEN PyStr(p.id)
                              ELSE IntToStr(quarter) \o <<"-">> \o PyStr(clock) \o <<"-">> \o side_str,
                       quarter |-> quarter,
                       clock |-> clock,
                       team |-> team_side,
                       type |-> PlayType(Lower(raw_name.s)),
                       description |-> description,
                       yards |-> yards,
                       player_primary |-> player_primary]]

RECURSIVE MapPlays(_, _, _)
MapPlays(plays, home_id, away_id) ==
    IF plays = <<>> THEN Return(<<>>)
    ELSE LET first == MapPlay(Head(plays), home_id, away_id)
         IN  IF first.kind = "raise" THEN Raise("AttributeError")
             ELSE LET rest == MapPlays(Tail(plays), home_id, away_id)
                  IN  IF rest.raised THEN rest
                      ELSE IF first.kind = "skip" THEN rest
                      ELSE Return(<<first.play>> \o rest.val)

\* TouchdownScorers with one entry per counted play, equal keys not merged
TouchdownScorers_unmerged(plays, acc) ==
    LET tds == SelectSeq(plays, LAMBDA pl : pl.type = "TD" /\ Truthy(pl.player_primary))
    IN  acc \o [i \in 1..Len(tds) |->
                   [player |-> tds[i].player_primary, team |-> tds[i].team, count |-> 1]]

\* td_counts as a list in first-occurrence order of (player, team)
RECURSIVE TouchdownScorers(_, _)
TouchdownScorers(plays, acc) ==
    IF plays = <<>> THEN acc
    ELSE
    LET pl == Head(plays)
        counted == pl.type = "TD" /\ Truthy(pl.player_primary)
        seen == {i \in 1..Len(acc) : acc[i].player = pl.player_primary /\ acc[i].team = pl.team}
    IN  IF ~counted THEN TouchdownScorers(Tail(plays), acc)
        ELSE IF seen = {}
        THEN TouchdownScorers(Tail(plays),
                Append(acc, [player |-> pl.player_primary, team |-> pl.team, count |-> 1]))
        ELSE TouchdownScorers(Tail(plays),
                [i \in 1..Len(acc) |->
                    IF i \in seen THEN [acc[i] EXCEPT !.count = @ + 1] ELSE acc[i]])

_map_scoring(p, header_obj) ==
    LET competitions == Or(p.header, [t |-> "dict", competitions |-> <<>>]).competitions
        comp == IF competitions # <<>> THEN competitions[1]
                ELSE [t |-> "dict", competitors |-> <<>>]
        home_points_by_q == _extract_linescore_points(comp, s_home)
        away_points_by_q == _extract_linescore_points(comp, s_away)
        home_id == header_obj.home_team.id
        away_id == header_obj.away_team.id
        scoring_plays_raw == IF "scoringPlays" \in DOMAIN p THEN p.scoringPlays ELSE <<>>
    IN  IF home_points_by_q.raised THEN home_points_by_q
        ELSE IF away_points_by_q.raised THEN away_points_by_q
        ELSE
        LET from_lines == QuarterSummary(home_points_by_q.val, away_points_by_q.val)
            tmp == IF from_lines = <<>> /\ scoring_plays_raw # <<>>
                   THEN FallbackPoints(scoring_plays_raw, home_id, away_id,
                                       [home |-> EmptyPoints, away |-> EmptyPoints])
                   ELSE Return([home |-> EmptyPoints, away |-> EmptyPoints])
            plays == MapPlays(scoring_plays_raw, home_id, away_id)
        IN  IF tmp.raised THEN tmp
            ELSE IF plays.raised THEN plays
            ELSE Return([summary_by_quarter |->
                            from_lines \o QuarterSummary(tmp.val.home, tmp.val.away),
                         plays |-> plays.val,
                         touchdown_scorers |-> TouchdownScorers(plays.val, <<>>)])

----------------------------------------------------------------------------
(* Calls of the scoring mapper                                             *)

MaxPlays == 3

s_Touchdown_name == <<"T", "o", "u", "c", "h", "d", "o", "w", "n">>
s_FieldGoal_name == <<"F", "i", "e", "l", "d", " ", "G", "o", "a", "l">>
s_Smith == <<"S", "m", "i", "t", "h">>
s_play_text == <<"s", "c", "o", "r", "e">>
s_oops == <<"o", "o", "p", "s">>

HomeTouchdown(q) ==
    ScoringPlay(JNull, Team(JStr(s_12)), PeriodInfo(JInt(q)), ClockInfo(JStr(s_clock)),
                JStr(s_play_text), ScoringType(JStr(s_Touchdown_name)), JInt(7),
                <<Athlete(JStr(s_Smith))>>)
AwayFieldGoal(q) ==
    ScoringPlay(JNull, Team(JInt(8)), PeriodInfo(JInt(q)), ClockInfo(JStr(s_clock)),
                JStr(s_play_text), ScoringType(JStr(s_FieldGoal_name)), JInt(3), <<>>)
NeutralTeamPlay ==
    ScoringPlay(JNull, Team(JStr(s_99)), PeriodInfo(JInt(1)), ClockInfo(JStr(s_clock)),
                JStr(s_play_text), ScoringType(JStr(s_Touchdown_name)), JInt(7), <<>>)

HomeFieldGoal(q) ==
    ScoringPlay(JNull, Team(JStr(s_12)), PeriodInfo(JInt(q)), ClockInfo(JStr(s_clock)),
                JStr(s_play_text), ScoringType(JStr(s_FieldGoal_name)), JInt(3), <<>>)
\* a scoring event that carries no point value
UnvaluedPlay == [AwayFieldGoal(3) EXCEPT !.scoreValue = JNull]

WellFormedPlays ==
    {HomeTouchdown(1), AwayFieldGoal(1), HomeFieldGoal(2), NeutralTeamPlay, UnvaluedPlay}

\* events the provider may send that are not of the documented shape
MalformedPlays ==
    {JStr(s_oops),
     [HomeTouchdown(1) EXCEPT !.team = JStr(s_12)],
     [HomeTouchdown(1) EXCEPT !.period = JInt(2)],
     [HomeTouchdown(1) EXCEPT !.clock = JStr(s_clock)],
     [HomeTouchdown(1) EXCEPT !.scoringType = JStr(s_td)]}

RECURSIVE SeqsUpTo(_, _)
SeqsUpTo(S, n) ==
    IF n = 0 THEN {<<>>}
    ELSE LET shorter == SeqsUpTo(S, n - 1)
         IN  shorter \cup {Append(q, x) : q \in shorter, x \in S}

ScoringCompetitors(withLines) ==
    <<CompetitorWithLines(JStr(s_home), Team(JStr(s_12)), JStr(<<"7">>),
          IF withLines THEN <<Linescore(JInt(1), JInt(7), JNull), Linescore(JInt(2), JNull, JStr(<<"3">>))>>
          ELSE <<>>),
      CompetitorWithLines(JStr(s_away), Team(JStr(s_8)), JInt(3),
          IF withLines THEN <<Linescore(JInt(1), JInt(3), JNull)>> ELSE <<>>)>>

MapScoringCalls ==
    {[fn |-> "_map_scoring",
      arg |-> FullPayload(<<Competition(InProgressStatus, ScoringCompetitors(withLines),
                                        EmptySituation)>>, plays, JNull)] :
        withLines \in BOOLEAN,
        plays \in SeqsUpTo(WellFormedPlays \cup MalformedPlays, MaxPlays)}

CallMapScoring ==
    /\ call.fn = "_map_scoring"
    /\ ~ret.done
    /\ ret' = _map_scoring(call.arg, _map_header(call.arg, s_TEST123).val)
    /\ UNCHANGED <<call, handlerVars, cacheVars>>

InitScoring ==
    /\ call \in MapScoringCalls
    /\ ret = Pending
    /\ HandlerIdle
    /\ CacheEmpty

NextScoring == CallMapScoring

SpecScoring == InitScoring /\ [][NextScoring]_vars

\* a scoring event of the documented shape: an object whose team, period, clock
\* and scoringType are objects
WellFormedPlay(p) ==
    /\ p.t = "dict"
    /\ p.team.t = "dict" /\ p.period.t = "dict" /\ p.clock.t = "dict"
    /\ p.scoringType.t = "dict"

\* the well-formed events of the call whose team is the home or the away team
PlaysToReturn ==
    {i \in 1..Len(call.arg.scoringPlays) :
        /\ WellFormedPlay(call.arg.scoringPlays[i])
        /\ PlayTeamId(call.arg.scoringPlays[i]) \in {s_12, s_8}}

(* C6: a scoringPlays list that contains one malformed event among well-formed
   events still yields a Scoring result with a play for every well-formed event
   whose team id matches home or away; the malformed event is skipped and no
   error is raised. *)
C6_MalformedPlaySkipped ==
    (/\ call.fn = "_map_scoring"
     /\ ret.done
     /\ Cardinality({i \in 1..Len(call.arg.scoringPlays) :
                        ~WellFormedPlay(call.arg.scoringPlays[i])}) = 1
     /\ PlaysToReturn # {})
    => (~ret.raised /\ Len(ret.val.plays) = Cardinality(PlaysToReturn))

----------------------------------------------------------------------------
(* app/main.py: _parse_team_statistics                                     *)

\* str.replace(" ", "")
RECURSIVE RemoveSpaces(_)
RemoveSpaces(s) ==
    IF s = <<>> THEN <<>>
    ELSE IF Head(s) = " " THEN RemoveSpaces(Tail(s))
    ELSE <<Head(s)>> \o RemoveSpaces(Tail(s))

\* str.split("-"): the list of the parts between hyphens
RECURSIVE SplitHyphen(_)
SplitHyphen(s) ==
    LET hy == {i \in 1..Len(s) : s[i] = "-"}
        first == CHOOSE i \in hy : \A j \in hy : i <= j
    IN  IF hy = {} THEN <<s>>
        ELSE <<SubSeq(s, 1, first - 1)>> \o SplitHyphen(SubSeq(s, first + 1, Len(s)))

\* float(v) for an integer or a string of digits with at most one point:
\* the number is num / 10^scale
PyFloat(v) ==
    IF IsInstanceInt(v) THEN [ok |-> TRUE, num |-> IntOf(v), scale |-> 0]
    ELSE IF v.t # "str" THEN [ok |-> FALSE, num |-> 0, scale |-> 0]
    ELSE LET t == Strip(v.s)
             dots == {i \in 1..Len(t) : t[i] = "."}
             digits == SelectSeq(t, LAMBDA c : c # ".")
         IN  IF Cardinality(dots) <= 1 /\ IsDigits(digits)
             THEN [ok |-> TRUE, num |-> DigitsValue(digits),
                   scale |-> IF dots = {} THEN 0 ELSE Len(t) - (CHOOSE i \in dots : TRUE)]
             ELSE [ok |-> FALSE, num |-> 0, scale |-> 0]

Stat(name, value) == [t |-> "dict", name |-> name, value |-> value, displayValue |-> JAbsent]

NoTeamStats ==
    [total_yards |-> JNull, plays |-> JNull, yards_per_play |-> JNull,
     passing_yards |-> JNull, rushing_yards |-> JNull, turnovers |-> JNull,
     penalties |-> JNull, penalty_yards |-> JNull,
     third_down_made |-> JNull, third_down_attempts |-> JNull,
     red_zone_trips |-> JNull, red_zone_tds |-> JNull, time_of_possession |-> JNull]

\* team_stats.field = int(value): on ValueError or TypeError nothing is assigned
SetInt(ts, field, value) ==
    IF PyInt(value).ok THEN [ts EXCEPT ![field] = JInt(PyInt(value).n)] ELSE ts

\* the two assignments of a composite "a-b": the first is made before the second
\* is parsed, and an exception in either ends the statistic
SetComposite(ts, first, second, value_str) ==
    LET parts == SplitHyphen(RemoveSpaces(value_str))
    IN  IF Len(parts) # 2 THEN ts
        ELSE IF ~PyIntOfStr(parts[1]).ok THEN ts
        ELSE LET half == [ts EXCEPT ![first] = JInt(PyIntOfStr(parts[1]).n)]
             IN  IF ~PyIntOfStr(parts[2]).ok THEN half
                 ELSE [half EXCEPT ![second] = JInt(PyIntOfStr(parts[2]).n)]

\* one iteration of the loop over stats_list
ParseStat(ts, s) ==
    IF s.t # "dict" THEN ts
    ELSE
    LET name == s.name
        value == IF s.value.t # "absent" THEN s.value
                 ELSE IF s.displayValue.t # "absent" THEN s.displayValue ELSE JNull
        value_str == PyStr(value)
    IN  IF value = JNull \/ value = JStr(s_empty) THEN ts
        ELSE IF name = "totalYards" THEN SetInt(ts, "total_yards", value)
        ELSE IF name \in {"totalPlays", "plays"} THEN SetInt(ts, "plays", value)
        ELSE IF name = "yardsPerPlay" THEN
            (IF PyFloat(value).ok
             THEN [ts EXCEPT !.yards_per_play =
                        [t |-> "float", num |-> PyFloat(value).num, scale |-> PyFloat(value).scale]]
             ELSE ts)
        ELSE IF name \in {"passingYards", "netPassingYards"} THEN SetInt(ts, "passing_yards", value)
        ELSE IF name = "rushingYards" THEN SetInt(ts, "rushing_yards", value)
        ELSE IF name = "turnovers" THEN SetInt(ts, "turnovers", value)
        ELSE IF name \in {"totalPenaltiesYards", "totalPenalties"}
        THEN SetComposite(ts, "penalties", "penalty_yards", value_str)
        ELSE IF name \in {"thirdDownEff", "thirdDownEfficiency"}
        THEN SetComposite(ts, "third_down_made", "third_down_attempts", value_str)
        ELSE IF name \in {"redZoneEff", "redZoneEfficiency"}
        THEN SetComposite(ts, "red_zone_tds", "red_zone_trips", value_str)
        ELSE IF name \in {"timeOfPossession", "possessionTime"}
        THEN [ts EXCEPT !.time_of_possession = JStr(value_str)]
        ELSE ts

RECURSIVE ParseStats(_, _)
ParseStats(ts, stats_list) ==
    IF stats_list = <<>> THEN ts
    ELSE ParseStats(ParseStat(ts, Head(stats_list)), Tail(stats_list))

_parse_team_statistics(stats_list) == ParseStats(NoTeamStats, stats_list)

----------------------------------------------------------------------------
(* Calls of _parse_team_statistics                                         *)

MaxStats == 2

s_5_45 == <<"5", "-", "4", "5">>
s_6_12 == <<"6", "-", "1", "2">>
s_5 == <<"5">>
s_5_x == <<"5", "-", "x">>
s_5_hyphen == <<"5", "-">>
s_x_5 == <<"x", "-", "5">>
s_5_45_spaced == <<"5", " ", "-", " ", "4", "5">>
s_3_4_5 == <<"3", "-", "4", "-", "5">>

StatValueInputs ==
    {JStr(s_5_45), JStr(s_6_12), JStr(s_5), JStr(s_5_x), JStr(s_5_hyphen), JStr(s_x_5),
     JStr(s_5_45_spaced), JStr(s_3_4_5), JInt(5)}

StatNameInputs == {"totalPenaltiesYards", "thirdDownEff", "redZoneEff", "totalYards", "timeOfPossession"}

TeamStatisticsCalls ==
    {[fn |-> "_parse_team_statistics", arg |-> stats] :
        stats \in SeqsUpTo({Stat(n, v) : n \in StatNameInputs, v \in StatValueInputs}, MaxStats)}

CallParseTeamStatistics ==
    /\ call.fn = "_parse_team_statistics"
    /\ ~ret.done
    /\ ret' = Return(_parse_team_statistics(call.arg))
    /\ UNCHANGED <<call, handlerVars, cacheVars>>

InitTeamStats ==
    /\ call \in TeamStatisticsCalls
    /\ ret = Pending
    /\ HandlerIdle
    /\ CacheEmpty

NextTeamStats == CallParseTeamStatistics

SpecTeamStats == InitTeamStats /\ [][NextTeamStats]_vars

(* C8: after _parse_team_statistics each composite pair is set together or not
   at all: penalties iff penalty_yards, third_down_made iff third_down_attempts,
   red_zone_tds iff red_zone_trips. *)
C8_CompositePairsSetTogether ==
    (call.fn = "_parse_team_statistics" /\ ret.done) =>
        /\ (ret.val.penalties = JNull) <=> (ret.val.penalty_yards = JNull)
        /\ (ret.val.third_down_made = JNull) <=> (ret.val.third_down_attempts = JNull)
        /\ (ret.val.red_zone_tds = JNull) <=> (ret.val.red_zone_trips = JNull)

----------------------------------------------------------------------------
(* app/main.py: _map_boxscore                                              *)

TopPlayers == 3

Boxscore(teams, players) == [t |-> "dict", teams |-> teams, players |-> players]
TeamStatistics(team, statistics) == [t |-> "dict", team |-> team, statistics |-> statistics]
PlayerSection(team, statistics) == [t |-> "dict", team |-> team, statistics |-> statistics]
StatGroup(name, athletes) == [t |-> "dict", name |-> name, athletes |-> athletes]
AthleteEntry(athlete, stats) == [t |-> "dict", athlete |-> athlete, stats |-> stats]

\* the stats mapping of one athlete; a key the mapping lacks is JAbsent
NoStats ==
    [t |-> "dict", completions |-> JAbsent, attempts |-> JAbsent, yards |-> JAbsent,
     touchdowns |-> JAbsent, interceptions |-> JAbsent, carries |-> JAbsent,
     receptions |-> JAbsent]

RequiredFields(group_name) ==
    CASE group_name = "passing" -> <<"completions", "attempts", "yards", "touchdowns", "interceptions">>
      [] group_name = "rushing" -> <<"carries", "yards", "touchdowns">>
      [] group_name = "receiving" -> <<"receptions", "yards", "touchdowns">>
      [] OTHER -> <<>>

\* one athlete of one group: a stat line, no line, or an exception of int()
MapAthlete(group_name, athlete, side) ==
    LET athlete_info == IF athlete.t = "dict" THEN Or(athlete.athlete, Athlete(JNull))
                        ELSE Athlete(JNull)
        stats == IF athlete.t = "dict" THEN athlete.stats ELSE JNull
        required == RequiredFields(group_name)
    IN  IF stats.t # "dict" THEN [kind |-> "skip"]
        ELSE IF ~Truthy(athlete_info.displayName) THEN [kind |-> "skip"]
        ELSE IF required = <<>> THEN [kind |-> "skip"]
        ELSE IF \E i \in 1..Len(required) : stats[required[i]].t = "absent" THEN [kind |-> "skip"]
        ELSE IF \E i \in 1..Len(required) : ~PyInt(stats[required[i]]).ok THEN [kind |-> "raise"]
        ELSE [kind |-> "line",
              group |-> group_name,
              line |-> [player |-> athlete_info.displayName,
                        team |-> side,
                        yards |-> PyInt(stats.yards).n,
                        fields |-> [i \in 1..Len(required) |-> PyInt(stats[required[i]]).n]]]

\* every (group name, athlete, side) triple in the order the three nested loops visit them
RECURSIVE GroupAthletes(_, _)
GroupAthletes(groups, side) ==
    IF groups = <<>> THEN <<>>
    ELSE LET g == Head(groups)
         IN  [i \in 1..Len(g.athletes) |-> [group |-> g.name, athlete |-> g.athletes[i], side |-> side]]
             \o GroupAthletes(Tail(groups), side)

RECURSIVE SectionAthletes(_, _, _)
SectionAthletes(sections, home_team_id, away_team_id) ==
    IF sections = <<>> THEN <<>>
    ELSE LET team_id == PlayTeamId(Head(sections))
             side == IF team_id = home_team_id THEN "home"
                     ELSE IF team_id = away_team_id THEN "away" ELSE "none"
         IN  (IF side = "none" THEN <<>> ELSE GroupAthletes(Head(sections).statistics, side))
             \o SectionAthletes(Tail(sections), home_team_id, away_team_id)

\* stable sort by yards, largest first (sorted(..., reverse=True) keeps ties in order)
RECURSIVE SortByYardsDesc(_)
SortByYardsDesc(lines) ==
    IF lines = <<>> THEN <<>>
    ELSE LET best == CHOOSE i \in 1..Len(lines) :
                        /\ \A j \in 1..Len(lines) : lines[j].yards <= lines[i].yards
                        /\ \A j \in 1..(i - 1) : lines[j].yards < lines[i].yards
         IN  <<lines[best]>>
             \o SortByYardsDesc(SubSeq(lines, 1, best - 1) \o SubSeq(lines, best + 1, Len(lines)))

\* Take from the end of the list instead of its start
Take_last(q, n) == SubSeq(q, IF Len(q) < n THEN 1 ELSE Len(q) - n + 1, Len(q))

Take(q, n) == SubSeq(q, 1, IF Len(q) < n THEN Len(q) ELSE n)

\* the team statistics of a side: the last teams entry with that id decides
RECURSIVE SideTeamStats(_, _, _)
SideTeamStats(teams, id, current) ==
    IF teams = <<>> THEN current
    ELSE SideTeamStats(Tail(teams), id,
            IF PlayTeamId(Head(teams)) = id
            THEN _parse_team_statistics(Head(teams).statistics) ELSE current)

_map_boxscore(p, header_obj) ==
    LET box == Or(DictGet(p, "boxscore"), Boxscore(<<>>, <<>>))
        home_team_id == header_obj.home_team.id
        away_team_id == header_obj.away_team.id
        visited == SectionAthletes(box.players, home_team_id, away_team_id)
        mapped == [i \in 1..Len(visited) |->
                      MapAthlete(visited[i].group, visited[i].athlete, visited[i].side)]
        linesOf(g) == LET keep == SelectSeq(mapped, LAMBDA m : m.kind = "line" /\ m.group = g)
                      IN  [i \in 1..Len(keep) |-> keep[i].line]
        unreadable(entries) ==
            \E k \in 1..Len(entries) : entries[k].t # "dict" \/ ~Readable(entries[k].team)
    IN  IF box.t # "dict" THEN Raise("AttributeError")
        ELSE IF unreadable(box.teams) \/ unreadable(box.players) THEN Raise("AttributeError")
        ELSE IF \E i \in 1..Len(mapped) : mapped[i].kind = "raise" THEN Raise("ValueError")
        ELSE Return(
            [team_stats |->
                [home |-> SideTeamStats(box.teams, home_team_id, NoTeamStats),
                 away |-> IF home_team_id = away_team_id THEN NoTeamStats
                          ELSE SideTeamStats(box.teams, away_team_id, NoTeamStats)],
             player_stats |->
                [passing |-> Take(SortByYardsDesc(linesOf("passing")), TopPlayers),
                 rushing |-> Take(SortByYardsDesc(linesOf("rushing")), TopPlayers),
                 receiving |-> Take(SortByYardsDesc(linesOf("receiving")), TopPlayers)]])

----------------------------------------------------------------------------
(* Calls of the boxscore mapper                                            *)

MaxAthletes == 2

s_250 == <<"2", "5", "0">>
s_x == <<"x">>
s_Jones == <<"J", "o", "n", "e", "s">>

CompletePassing ==
    [NoStats EXCEPT !.completions = JInt(20), !.attempts = JInt(30), !.yards = JStr(s_250),
                    !.touchdowns = JInt(2), !.interceptions = JInt(1)]
CompleteRushing ==
    [NoStats EXCEPT !.carries = JInt(4), !.yards = JInt(12), !.touchdowns = JInt(0)]

PassingEntries ==
    {AthleteEntry(Athlete(JStr(s_Smith)), CompletePassing),
     AthleteEntry(Athlete(JStr(s_Jones)), [CompletePassing EXCEPT !.yards = JInt(180)]),
     AthleteEntry(Athlete(JStr(s_Smith)), [CompletePassing EXCEPT !.interceptions = JAbsent]),
     AthleteEntry(Athlete(JStr(s_Smith)), [CompletePassing EXCEPT !.yards = JStr(s_x)]),
     AthleteEntry(Athlete(JStr(s_Smith)), [CompletePassing EXCEPT !.touchdowns = JNull])}

RushingEntries ==
    {AthleteEntry(Athlete(JStr(s_Smith)), CompleteRushing),
     AthleteEntry(Athlete(JStr(s_Smith)), [CompleteRushing EXCEPT !.carries = JAbsent])}

MapBoxscoreCalls ==
    {[fn |-> "_map_boxscore",
      arg |-> FullPayload(
                <<Competition(InProgressStatus, ScoringCompetitors(FALSE), EmptySituation)>>,
                <<>>,
                Boxscore(<<TeamStatistics(Team(JStr(s_12)), <<Stat("totalYards", JInt(5))>>)>>,
                         <<PlayerSection(Team(JStr(s_12)),
                                         <<StatGroup("passing", pa), StatGroup("rushing", ru)>>)>>))] :
        pa \in SeqsUpTo(PassingEntries, MaxAthletes), ru \in SeqsUpTo(RushingEntries, 1)}

CallMapBoxscore ==
    /\ call.fn = "_map_boxscore"
    /\ ~ret.done
    /\ ret' = _map_boxscore(call.arg, _map_header(call.arg, s_TEST123).val)
    /\ UNCHANGED <<call, handlerVars, cacheVars>>

InitBoxscore ==
    /\ call \in MapBoxscoreCalls
    /\ ret = Pending
    /\ HandlerIdle
    /\ CacheEmpty

NextBoxscore == CallMapBoxscore

SpecBoxscore == InitBoxscore /\ [][NextBoxscore]_vars

\* every required field of the category is present and castable to an integer
CompleteEntry(entry, group_name) ==
    \A i \in 1..Len(RequiredFields(group_name)) :
        /\ entry.stats[RequiredFields(group_name)[i]].t # "absent"
        /\ PyInt(entry.stats[RequiredFields(group_name)[i]]).ok

\* the athlete entries of the call's n-th group that deserve a line
CompleteEntries(n, group_name) ==
    LET athletes == call.arg.boxscore.players[1].statistics[n].athletes
    IN  {i \in 1..Len(athletes) : CompleteEntry(athletes[i], group_name)}

(* C7: a player stat line is emitted for a category exactly when every required
   field of that category is present and castable to an integer; an entry with
   a missing or uncastable required field yields no line and never an error,
   and the lines of the other entries are still emitted. *)
C7_LineIffAllFieldsCastable ==
    (call.fn = "_map_boxscore" /\ ret.done) =>
        /\ ~ret.raised
        /\ Len(ret.val.player_stats.passing) = Cardinality(CompleteEntries(1, "passing"))
        /\ Len(ret.val.player_stats.rushing) = Cardinality(CompleteEntries(2, "rushing"))

----------------------------------------------------------------------------
(* app/services/scoreboard.py: _map_competitor and parse_scoreboard        *)

\* a scoreboard event; get_games_today reads id and competitions only
ScoreboardEvent(id, competitions, status, date) ==
    [t |-> "dict", id |-> id, competitions |-> competitions, status |-> status, date |-> date]
EventStatus(statusType) == [t |-> "dict", type |-> statusType]

\* the team's display fields are taken as present; raw["team"] must be an object
_map_competitor(raw) ==
    IF raw.team.t # "dict" THEN Raise("KeyError")
    ELSE IF raw.homeAway.t # "str" \/ raw.homeAway.s \notin {s_home, s_away}
    THEN Raise("ValidationError")
    ELSE Return([team_id |-> raw.team.id,
                 homeAway |-> raw.homeAway.s,
                 score |-> IF Truthy(raw.score) /\ IsDigits(PyStr(raw.score))
                           THEN JInt(PyInt(raw.score).n) ELSE JNull])

\* sorted(comp, key=lambda x: x["homeAway"]) followed by _map_competitor on each:
\* the sort is stable and "away" < "home"
MapCompetitors(comp) ==
    IF \E i \in 1..Len(comp) : comp[i].t # "dict" THEN Raise("TypeError")
    ELSE IF \E i \in 1..Len(comp) : comp[i].homeAway.t = "absent" THEN Raise("KeyError")
    ELSE IF \E i \in 1..Len(comp) : _map_competitor(comp[i]).raised
    THEN Raise("ValidationError")
    ELSE LET ordered == SelectSeq(comp, LAMBDA c : c.homeAway.s = s_away)
                        \o SelectSeq(comp, LAMBDA c : c.homeAway.s = s_home)
         IN  Return([i \in 1..Len(ordered) |-> _map_competitor(ordered[i]).val])

\* one iteration of the loop over events: a GameSummary or an exception
ParseEvent(e) ==
    IF e.t # "dict" THEN [kind |-> "raise", exc |-> "TypeError"]
    ELSE IF e.competitions = <<>> THEN [kind |-> "raise", exc |-> "KeyError"]
    ELSE IF e.competitions[1].t # "dict" THEN [kind |-> "raise", exc |-> "TypeError"]
    ELSE IF e.status.t # "dict" THEN [kind |-> "raise", exc |-> "KeyError"]
    ELSE IF e.status.type.t # "dict" \/ e.status.type.description.t = "absent"
    THEN [kind |-> "raise", exc |-> "KeyError"]
    ELSE IF e.id.t = "absent" THEN [kind |-> "raise", exc |-> "KeyError"]
    ELSE IF e.status.type.description.t # "str" \/ e.id.t # "str" \/ ~Truthy(e.date)
    THEN [kind |-> "raise", exc |-> "ValidationError"]
    ELSE LET competitors == MapCompetitors(e.competitions[1].competitors)
         IN  IF competitors.raised THEN [kind |-> "raise", exc |-> competitors.exc]
             ELSE [kind |-> "game",
                   game |-> [id |-> e.id.s,
                             status |-> e.status.type.description.s,
                             competitors |-> competitors.val]]

RECURSIVE ParseEvents(_)
ParseEvents(events) ==
    IF events = <<>> THEN Return(<<>>)
    ELSE LET first == ParseEvent(Head(events))
         IN  IF first.kind = "raise" THEN Raise(first.exc)
             ELSE LET rest == ParseEvents(Tail(events))
                  IN  IF rest.raised THEN rest
                      ELSE Return(<<first.game>> \o rest.val)

parse_scoreboard(data) ==
    IF data.t # "dict" THEN Raise("AttributeError")
    ELSE ParseEvents(data.events)

----------------------------------------------------------------------------
(* app/cfb_scoreboard.py: _build_team, _map_cfb_game, the games loop       *)

CfbGame(id, status, completed, home_team, home_id, home_points, away_team, away_id, away_points) ==
    [t |-> "dict", id |-> id, status |-> status, completed |-> completed,
     home_team |-> home_team, home_id |-> home_id, home_points |-> home_points,
     away_team |-> away_team, away_id |-> away_id, away_points |-> away_points]

\* with no metadata and no ranking known for the team
_build_team(team_name, team_id, score) ==
    [id |-> PyStr(Or(team_id, team_name)),
     name |-> team_name,
     score |-> IF IsInstanceInt(score) THEN score ELSE JNull]

_map_cfb_game(game) ==
    IF game.t # "dict" THEN Raise("AttributeError")
    ELSE IF Truthy(game.status) /\ game.status.t # "str" THEN Raise("AttributeError")
    ELSE Return([game_id |-> PyStr(game.id),
                 status |-> _normalize_cfb_status(game.status, game.completed),
                 home_team |-> _build_team(game.home_team, game.home_id, game.home_points),
                 away_team |-> _build_team(game.away_team, game.away_id, game.away_points)])

\* the loop over games_raw: a game that raises is skipped
RECURSIVE CfbGames(_)
CfbGames(games_raw) ==
    IF games_raw = <<>> THEN <<>>
    ELSE LET mapped == _map_cfb_game(Head(games_raw))
         IN  IF mapped.raised THEN CfbGames(Tail(games_raw))
             ELSE <<mapped.val>> \o CfbGames(Tail(games_raw))

get_cfb_scoreboard_games(games_raw) == Return(CfbGames(games_raw))

----------------------------------------------------------------------------
(* Calls of the three list builders                                        *)

MaxEvents == 2

s_401 == <<"4", "0", "1">>
s_402 == <<"4", "0", "2">>
s_date == <<"2", "0", "2", "5", "-", "1", "2", "-", "0", "6", "T", "0", "1", ":", "2", "0", "Z">>
s_Ohio == <<"O", "h", "i", "o">>
s_Iowa == <<"I", "o", "w", "a">>

BoardCompetitors ==
    <<Competitor(JStr(s_home), Team(JStr(s_12)), JStr(<<"7">>)),
      Competitor(JStr(s_away), Team(JStr(s_8)), JStr(<<"3">>))>>

BoardEvent(id, competitions) ==
    ScoreboardEvent(JStr(id), competitions, EventStatus(InProgressStatus), JStr(s_date))

WellFormedEvents ==
    {BoardEvent(s_401, <<Competition(InProgressStatus, BoardCompetitors, JNull)>>),
     BoardEvent(s_402, <<Competition(InProgressStatus, BoardCompetitors,
                                     Situation(JStr(s_12), JInt(1), JInt(10), JInt(85), JNull))>>)}

MalformedEvents ==
    {JStr(s_oops),
     BoardEvent(s_401, <<>>),
     BoardEvent(s_401, <<Competition(InProgressStatus, <<BoardCompetitors[1]>>, JNull)>>),
     [BoardEvent(s_401, <<Competition(InProgressStatus, BoardCompetitors, JNull)>>)
         EXCEPT !.status = JAbsent],
     BoardEvent(s_401, <<Competition(InProgressStatus,
                                     <<Competitor(JStr(s_home), JStr(s_oops), JInt(7)),
                                       BoardCompetitors[2]>>, JNull)>>)}

WellFormedCfbGames ==
    {CfbGame(JInt(401), JStr(s_final), JBool(TRUE), JStr(s_Ohio), JInt(12), JInt(21),
             JStr(s_Iowa), JInt(8), JInt(14)),
     CfbGame(JInt(402), JNull, JBool(FALSE), JStr(s_Iowa), JNull, JNull,
             JStr(s_Ohio), JNull, JNull)}

MalformedCfbGames ==
    {JNull, JStr(s_oops),
     CfbGame(JInt(401), JInt(3), JNull, JStr(s_Ohio), JInt(12), JInt(21),
             JStr(s_Iowa), JInt(8), JInt(14))}

ListBuilderCalls ==
    {[fn |-> fn, arg |-> ScoreboardPayload(events)] :
        fn \in {"get_games_today", "parse_scoreboard"},
        events \in SeqsUpTo(WellFormedEvents \cup MalformedEvents, MaxEvents)}
    \cup {[fn |-> "get_cfb_scoreboard", arg |-> games_raw] :
            games_raw \in SeqsUpTo(WellFormedCfbGames \cup MalformedCfbGames, MaxEvents)}

CallParseScoreboard ==
    /\ call.fn = "parse_scoreboard"
    /\ ~ret.done
    /\ ret' = parse_scoreboard(call.arg)
    /\ UNCHANGED <<call, handlerVars, cacheVars>>

CallCfbScoreboardGames ==
    /\ call.fn = "get_cfb_scoreboard"
    /\ ~ret.done
    /\ ret' = get_cfb_scoreboard_games(call.arg)
    /\ UNCHANGED <<call, handlerVars, cacheVars>>

InitBoards ==
    /\ call \in ListBuilderCalls
    /\ ret = Pending
    /\ HandlerIdle
    /\ CacheEmpty

NextBoards ==
    \/ CallGamesTodayBody
    \/ CallParseScoreboard
    \/ CallCfbScoreboardGames

SpecBoards == InitBoards /\ [][NextBoards]_vars

\* the items of the call's upstream list
CallItems == IF call.fn = "get_cfb_scoreboard" THEN call.arg ELSE call.arg.events

\* the ids of the well-formed items of the call's list, in order
WellFormedIds ==
    LET kept == SelectSeq(CallItems, LAMBDA x : x \in WellFormedEvents \cup WellFormedCfbGames)
    IN  [i \in 1..Len(kept) |-> PyStr(kept[i].id)]

\* the ids of the games the builder returned, in order
ReturnedIds ==
    [i \in 1..Len(ret.val) |->
        IF call.fn = "parse_scoreboard" THEN ret.val[i].id ELSE ret.val[i].game_id]

(* C5: in each of the list builders get_games_today, parse_scoreboard and
   get_cfb_scoreboard, a list with a single malformed item does not abort the
   response: no error is raised, the malformed item is dropped and every
   well-formed item of the list is returned. *)
C5_MalformedItemDropped ==
    (/\ call.fn \in {"get_games_today", "parse_scoreboard", "get_cfb_scoreboard"}
     /\ ret.done
     /\ Cardinality({i \in 1..Len(CallItems) :
                        CallItems[i] \notin WellFormedEvents \cup WellFormedCfbGames}) = 1)
    => (~ret.raised /\ ReturnedIds = WellFormedIds)

----------------------------------------------------------------------------
(* app/main.py: _http_get_json, _get_ref_url and                           *)
(* _build_summary_like_payload_from_core                                   *)

\* what httpx.get produced: an httpx.RequestError, or a response
RequestError == [kind |-> "RequestError"]
Response(status_code, body) == [kind |-> "response", status_code |-> status_code, body |-> body]
\* a body that response.json() cannot decode
InvalidJson == [t |-> "invalid"]

\* one contact with the provider: the resource asked for and what came back
Contact(resource, outcome) == [resource |-> resource, outcome |-> outcome]

_http_get_json(outcome) ==
    IF outcome.kind = "RequestError" THEN Raise("RuntimeError")
    ELSE IF outcome.status_code # 200 THEN Raise("RuntimeError")
    ELSE IF outcome.body.t = "invalid" THEN Raise("RuntimeError")
    ELSE Return(outcome.body)

\* a Core reference {"$ref": url}
CoreRef(url) == [t |-> "dict", ref |-> JStr(url)]

_get_ref_url(obj) ==
    IF obj.t # "dict" THEN JNull
    ELSE IF "ref" \in DOMAIN obj /\ obj.ref.t = "str" /\ obj.ref.s # <<>> THEN obj.ref
    ELSE JNull

CoreEvent(competitions, situation) ==
    [t |-> "dict", competitions |-> competitions, situation |-> situation, venue |-> JNull]
\* a Core competition: what the synthesizer reads of it
CoreCompetition(statusType, competitors, situation, venue, broadcasts) ==
    [t |-> "dict", status |-> [t |-> "dict", type |-> statusType],
     competitors |-> competitors, situation |-> situation, venue |-> venue,
     broadcasts |-> broadcasts]
\* `a or b` where b may itself be None
OrNone(a, b) == IF Truthy(a) THEN a ELSE IF b.t = "absent" THEN JNull ELSE b
CoreTeam(id, displayName, abbreviation) ==
    [t |-> "dict", id |-> id, displayName |-> displayName, name |-> JNull,
     abbreviation |-> abbreviation, location |-> JNull]
CoreVenue(fullName, city) ==
    [t |-> "dict", fullName |-> fullName, name |-> JNull, indoor |-> JBool(FALSE),
     address |-> [t |-> "dict", city |-> city, state |-> JNull]]
CoreBroadcast(names, shortName) ==
    [t |-> "dict", names |-> names, shortName |-> shortName]
CoreCompetitor(homeAway, id, team, score) ==
    [t |-> "dict", homeAway |-> homeAway, id |-> id, team |-> team, score |-> score,
     linescores |-> <<>>]
CoreScore(value, displayValue) == [t |-> "dict", value |-> value, displayValue |-> displayValue]

\* team_data of one competitor: fetched through the reference (a failed fetch is
\* tolerated and reads as {}), or the inline object, or {}
CoreTeamData(c, fetched) ==
    LET team_meta == Or(c.team, EmptyDict)
    IN  IF _get_ref_url(team_meta) # JNull
        THEN IF _http_get_json(fetched).raised THEN EmptyDict
             ELSE _http_get_json(fetched).val
        ELSE IF team_meta.t = "dict" THEN team_meta
        ELSE EmptyDict

\* team_obj
SynthTeam(c, team_data) ==
    [t |-> "dict",
     id |-> JStr(PyStr(Or(DictGet(team_data, "id"), Or(c.id, JStr(s_empty))))),
     displayName |-> Or(DictGet(team_data, "displayName"),
                        Or(DictGet(team_data, "name"), JStr(s_empty))),
     name |-> Or(DictGet(team_data, "name"), JStr(s_empty)),
     abbreviation |-> Or(DictGet(team_data, "abbreviation"), JStr(s_empty)),
     location |-> OrNone(JNull, DictGet(team_data, "location"))]

\* the Site-style competitor synthesized from a Core competitor
SynthCompetitor(c, team_data) ==
    LET side == Lower(Or(c.homeAway, JStr(s_empty)).s)
        score_core == c.score
        score_val == IF ~Truthy(score_core) THEN JInt(0)
                     ELSE IF score_core.t = "dict"
                     THEN Or(score_core.value, Or(score_core.displayValue, JInt(0)))
                     ELSE score_core
    IN  CompetitorWithLines(IF side = <<>> THEN JNull ELSE JStr(side),
                            SynthTeam(c, team_data),
                            JStr(PyStr(score_val)),
                            c.linescores)

\* the competitors loop: an element that is not an object is skipped
RECURSIVE SynthCompetitors(_, _)
SynthCompetitors(competitors_core, fetched) ==
    IF competitors_core = <<>> THEN <<>>
    ELSE LET c == Head(competitors_core)
             rest == SynthCompetitors(Tail(competitors_core), Tail(fetched))
         IN  IF c.t # "dict" THEN rest
             ELSE <<SynthCompetitor(c, CoreTeamData(c, Head(fetched)))>> \o rest

\* the situation dict built from situation_core ({} when that is empty)
SynthSituation(situation_core) ==
    IF situation_core.t # "dict" THEN EmptySituation
    ELSE LET poss == situation_core.possession
             possession_val ==
                 IF poss.t = "dict"
                 THEN LET team == DictGet(poss, "team")
                      IN  JStr(PyStr(Or(DictGet(poss, "id"),
                                        IF team.t = "dict"
                                        THEN OrNone(DictGet(team, "id"), JNull)
                                        ELSE JStr(s_empty))))
                 ELSE IF poss.t \in {"str", "int", "bool"} THEN JStr(PyStr(poss))
                 ELSE JNull
         IN  Situation(IF Truthy(possession_val) THEN possession_val ELSE JNull,
                       situation_core.down, situation_core.distance,
                       situation_core.yardLine, situation_core.isRedZone)

\* situation_core: fetched through the reference (a failed fetch is tolerated),
\* or the inline object, or {}
CoreSituation(event, comp, fetched) ==
    LET situation_meta == Or(comp.situation, Or(event.situation, JNull))
    IN  IF _get_ref_url(situation_meta) # JNull
        THEN IF _http_get_json(fetched).raised THEN JNull ELSE _http_get_json(fetched).val
        ELSE IF situation_meta.t = "dict" THEN situation_meta
        ELSE JNull

\* venue_core: fetched through the reference (a failed fetch is tolerated), or
\* the inline object, or {}
CoreVenueData(event, comp, fetched) ==
    LET venue_meta == Or(comp.venue, Or(event.venue, EmptyDict))
    IN  IF _get_ref_url(venue_meta) # JNull
        THEN IF _http_get_json(fetched).raised THEN EmptyDict ELSE _http_get_json(fetched).val
        ELSE IF venue_meta.t = "dict" THEN venue_meta
        ELSE EmptyDict

\* the venue dict, built whatever venue_core is
SynthVenue(venue_core) ==
    LET address_core == Or(DictGet(venue_core, "address"), EmptyDict)
    IN  [t |-> "dict",
         fullName |-> OrNone(DictGet(venue_core, "fullName"), DictGet(venue_core, "name")),
         name |-> OrNone(JNull, DictGet(venue_core, "name")),
         indoor |-> OrNone(JNull, DictGet(venue_core, "indoor")),
         address |-> [t |-> "dict",
                      city |-> OrNone(DictGet(address_core, "city"), DictGet(venue_core, "city")),
                      state |-> OrNone(DictGet(address_core, "state"),
                                       DictGet(venue_core, "state"))]]

\* b_data of one broadcast: fetched through the reference (a failed fetch is
\* tolerated and reads as {}), or the inline object, or {}
CoreBroadcastData(b_meta, fetched) ==
    IF _get_ref_url(b_meta) # JNull
    THEN IF _http_get_json(fetched).raised THEN EmptyDict ELSE _http_get_json(fetched).val
    ELSE IF b_meta.t = "dict" THEN b_meta
    ELSE EmptyDict

\* the broadcasts loop: an entry is appended when a network name is found, or
\* else when b_data is not empty
RECURSIVE SynthBroadcasts(_, _)
SynthBroadcasts(broadcasts_core, fetched) ==
    IF broadcasts_core = <<>> THEN <<>>
    ELSE LET b_data == CoreBroadcastData(Head(broadcasts_core), Head(fetched))
             names == IF "names" \in DOMAIN b_data THEN b_data.names ELSE <<>>
             network == IF names # <<>> THEN names[1]
                        ELSE Or(DictGet(b_data, "shortName"),
                                Or(DictGet(b_data, "name"),
                                   OrNone(JNull, DictGet(b_data, "network"))))
             rest == SynthBroadcasts(Tail(broadcasts_core), Tail(fetched))
         IN  IF Truthy(network)
             THEN <<[t |-> "dict", names |-> <<network>>, network |-> network]>> \o rest
             ELSE IF Truthy(b_data) THEN <<b_data>> \o rest
             ELSE rest

\* a variant of the synthesizer that also emits a scoringPlays section
CoreSummaryPayload_with_plays(event, comp, team_fetches, situation_fetch, venue_fetch, broadcast_fetches) ==
    IF comp.t # "dict" THEN Raise("AttributeError")
    ELSE Return(FullPayload(
             <<Competition(EmptyStatusType,
                           SynthCompetitors(comp.competitors, team_fetches),
                           SynthSituation(CoreSituation(event, comp, situation_fetch)))
               @@ [venue |-> SynthVenue(CoreVenueData(event, comp, venue_fetch)),
                   broadcasts |-> SynthBroadcasts(comp.broadcasts, broadcast_fetches)]>>,
             <<[t |-> "dict", id |-> JNull]>>, JNull))

\* the part of _build_summary_like_payload_from_core after event and competition
\* are known: the summary-like payload, given what the tolerated fetches produced
CoreSummaryPayload(event, comp, team_fetches, situation_fetch, venue_fetch, broadcast_fetches) ==
    IF comp.t # "dict" THEN Raise("AttributeError")
    ELSE LET status == IF comp.status.t = "dict" THEN Or(comp.status.type, EmptyStatusType)
                       ELSE EmptyStatusType
         IN  Return([t |-> "dict",
                     header |->
                        [t |-> "dict",
                         competitions |->
                            <<Competition(status,
                                          SynthCompetitors(comp.competitors, team_fetches),
                                          SynthSituation(CoreSituation(event, comp,
                                                                       situation_fetch)))
                              @@ [venue |-> SynthVenue(CoreVenueData(event, comp, venue_fetch)),
                                  broadcasts |-> SynthBroadcasts(comp.broadcasts,
                                                                 broadcast_fetches)]>>]])

\* the contacts the tolerated fetches make, in the order of the code
HydrateContacts(event, comp, team_fetches, situation_fetch, venue_fetch, broadcast_fetches) ==
    LET competitors == comp.competitors
        team_idx == {i \in 1..Len(competitors) :
                        /\ competitors[i].t = "dict"
                        /\ _get_ref_url(Or(competitors[i].team, Team(JNull))) # JNull}
        teams == SelectSeq([i \in 1..Len(competitors) |->
                               IF i \in team_idx THEN Contact("core-team", team_fetches[i])
                               ELSE JNull],
                           LAMBDA x : x # JNull)
        situation_meta == Or(comp.situation, Or(event.situation, JNull))
        venue_meta == Or(comp.venue, Or(event.venue, EmptyDict))
        broadcasts == SelectSeq([i \in 1..Len(comp.broadcasts) |->
                                    IF _get_ref_url(comp.broadcasts[i]) # JNull
                                    THEN Contact("core-broadcast", broadcast_fetches[i])
                                    ELSE JNull],
                                LAMBDA x : x # JNull)
    IN  teams
        \o (IF _get_ref_url(situation_meta) # JNull
            THEN <<Contact("core-situation", situation_fetch)>> ELSE <<>>)
        \o (IF _get_ref_url(venue_meta) # JNull
            THEN <<Contact("core-venue", venue_fetch)>> ELSE <<>>)
        \o broadcasts

----------------------------------------------------------------------------
(* app/main.py: the handlers get_game_live and get_games_today             *)

\* a JSON response of the service: its status, the keys of an error body, the
\* error text, and the content of a success
BadGateway(error, keys) ==
    [status_code |-> 502, error |-> error, keys |-> keys, content |-> JNull]
Success(content) ==
    [status_code |-> 200, error |-> "", keys |-> {}, content |-> content]

\* a variant of SummaryBranch that falls back to Core on every failing status
SummaryBranch_core_on_any_status(status_code) ==
    IF status_code = 200 THEN "decode"
    ELSE "core"

\* the if / elif / else of get_game_live on the summary's status code
SummaryBranch(status_code) ==
    IF status_code = 200 THEN "decode"
    ELSE IF status_code = 404 THEN "core"
    ELSE "fail"

\* a request for one of the two endpoints arrives
ReceiveRequest ==
    /\ pc = "idle"
    /\ \E e \in {"live", "today"} :
        /\ endpoint' = e
        /\ pc' = IF e = "live" THEN "summary" ELSE "scoreboard"
    /\ UNCHANGED <<upstream, payload, responses, mapperVars, cacheVars>>

Respond(r) ==
    /\ responses' = Append(responses, r)
    /\ pc' = "done"

CoreFallbackFailed ==
    BadGateway("ESPN Core API fallback failed", {"error", "game_id", "endpoint", "message"})


\* documents the provider may serve

s_url == <<"h", "t", "t", "p", ":", "/", "/", "c", "o", "r", "e">>
s_Stadium == <<"S", "t", "a", "d", "i", "u", "m">>
s_Denver == <<"D", "e", "n", "v", "e", "r">>
s_ESPN == <<"E", "S", "P", "N">>
s_Broncos == <<"B", "r", "o", "n", "c", "o", "s">>
s_DEN == <<"D", "E", "N">>

FinalStatus ==
    StatusType(JStr(s_post), JStr(s_STATUS_FINAL), JStr(s_final), JBool(TRUE), JInt(4), JNull)

LivePayloads ==
    {FullPayload(<<Competition(InProgressStatus, ScoringCompetitors(TRUE),
                               Situation(JStr(s_12), JInt(1), JInt(10), JInt(85), JNull))>>,
                 <<HomeTouchdown(1)>>,
                 Boxscore(<<>>, <<PlayerSection(Team(JStr(s_12)),
                     <<StatGroup("passing", <<AthleteEntry(Athlete(JStr(s_Smith)), CompletePassing)>>)>>)>>)),
     SummaryPayload(<<Competition(InProgressStatus, BoardCompetitors, JNull)>>),
     SummaryPayload(<<>>),
     SummaryPayload(<<Competition(SuspendedStatus, BoardCompetitors, JNull)>>),
     FullPayload(<<Competition(InProgressStatus, BoardCompetitors, JNull)>>,
                 <<JStr(s_oops)>>, JNull),
     JStr(s_oops)}
    \cup IncompletePayloads

FailingStatusCodes == {403, 500}

SummaryOutcomes ==
    {RequestError}
    \cup {Response(200, b) : b \in LivePayloads \cup {InvalidJson}}
    \cup {Response(c, JNull) : c \in {404} \cup FailingStatusCodes}

ScoreboardOutcomes ==
    {RequestError}
    \cup {Response(200, b) :
            b \in {ScoreboardPayload(events) :
                     events \in SeqsUpTo(WellFormedEvents \cup {JStr(s_oops), BoardEvent(s_401, <<>>)}, 1)}
                  \cup {InvalidJson, JStr(s_oops)}}
    \cup {Response(c, JNull) : c \in {404} \cup FailingStatusCodes}

CoreSituations ==
    {JNull, CoreRef(s_url), Situation(PossessionObject(JStr(s_12)), JInt(2), JInt(5), JInt(85), JNull)}

CoreCompetitions ==
    {CoreCompetition(FinalStatus,
                     <<CoreCompetitor(JStr(s_home), JStr(s_12), home, CoreScore(JInt(21), JNull)),
                       CoreCompetitor(JStr(s_away), JStr(s_8), away, JStr(<<"7">>))>>,
                     situation, more.venue, more.broadcasts) :
        home \in {Team(JStr(s_12)), CoreRef(s_url)},
        away \in {JNull, CoreRef(s_url)},
        situation \in CoreSituations,
        more \in {[venue |-> JNull, broadcasts |-> <<>>],
                  [venue |-> CoreRef(s_url), broadcasts |-> <<CoreRef(s_url)>>]}}
    \cup {CoreCompetition(FinalStatus,
                          <<CoreCompetitor(JStr(s_home), JStr(s_12), JNull, JNull), JStr(s_oops)>>,
                          JNull, JNull, <<>>)}

CoreEventOutcomes ==
    {RequestError, Response(500, JNull), Response(200, InvalidJson)}
    \cup {Response(200, CoreEvent(<<c>>, JNull)) : c \in {CoreRef(s_url), JStr(s_oops)}}
    \cup {Response(200, CoreEvent(<<>>, JNull))}
    \cup {Response(200, CoreEvent(<<c>>, JNull)) :
            c \in {x \in CoreCompetitions : x.situation \in {JNull, CoreRef(s_url)}}}

CoreCompetitionOutcomes ==
    {RequestError, Response(404, JNull), Response(200, JStr(s_oops))}
    \cup {Response(200, c) : c \in {x \in CoreCompetitions : x.situation # CoreRef(s_url)}}

CoreTeamOutcomes == {RequestError, Response(200, Team(JStr(s_99)))}

CoreSituationOutcomes ==
    {Response(500, JNull),
     Response(200, Situation(JInt(8), JInt(3), JInt(1), JInt(40), JBool(FALSE)))}

CoreVenueOutcomes == {Response(500, JNull), Response(200, CoreVenue(JStr(s_Stadium), JStr(s_Denver)))}

CoreBroadcastOutcomes == {RequestError, Response(200, CoreBroadcast(<<>>, JStr(s_ESPN)))}

\* get_game_live up to the end of its status dispatch: the summary request
FetchSummary ==
    /\ pc = "summary"
    /\ \E outcome \in SummaryOutcomes :
        /\ upstream' = Append(upstream, Contact("summary", outcome))
        /\ IF outcome.kind = "RequestError"
           THEN /\ Respond(BadGateway("Failed to reach ESPN API",
                                      {"error", "game_id", "endpoint", "message"}))
                /\ UNCHANGED payload
           ELSE IF SummaryBranch(outcome.status_code) = "decode"
           THEN IF outcome.body.t = "invalid"
                THEN /\ Respond(BadGateway("Invalid JSON from ESPN API",
                                           {"error", "game_id", "endpoint", "message"}))
                     /\ UNCHANGED payload
                ELSE /\ payload' = outcome.body
                     /\ pc' = "map"
                     /\ UNCHANGED responses
           ELSE IF SummaryBranch(outcome.status_code) = "core"
           THEN /\ pc' = "core-event"
                /\ UNCHANGED <<payload, responses>>
           ELSE /\ Respond(BadGateway("ESPN API returned non-200 status",
                                      {"error", "game_id", "endpoint", "status_code"}))
                /\ UNCHANGED payload
    /\ UNCHANGED <<endpoint, mapperVars, cacheVars>>

\* _build_summary_like_payload_from_core up to the choice of the competition
CoreFetchEvent ==
    /\ pc = "core-event"
    /\ \E outcome \in CoreEventOutcomes :
        LET event == _http_get_json(outcome)
        IN  /\ upstream' = Append(upstream, Contact("core-event", outcome))
            /\ IF event.raised THEN Respond(CoreFallbackFailed) /\ UNCHANGED payload
               ELSE IF event.val.t # "dict" THEN Respond(CoreFallbackFailed) /\ UNCHANGED payload
               ELSE IF event.val.competitions = <<>>
               THEN Respond(CoreFallbackFailed) /\ UNCHANGED payload
               ELSE LET comp_meta == event.val.competitions[1]
                    IN  IF _get_ref_url(comp_meta) # JNull
                        THEN /\ payload' = [t |-> "core", event |-> event.val, comp |-> JNull]
                             /\ pc' = "core-competition"
                             /\ UNCHANGED responses
                        ELSE IF comp_meta.t = "dict"
                        THEN /\ payload' = [t |-> "core", event |-> event.val, comp |-> comp_meta]
                             /\ pc' = "core-hydrate"
                             /\ UNCHANGED responses
                        ELSE Respond(CoreFallbackFailed) /\ UNCHANGED payload
    /\ UNCHANGED <<endpoint, mapperVars, cacheVars>>

\* the competition is fetched through its reference
CoreFetchCompetition ==
    /\ pc = "core-competition"
    /\ \E outcome \in CoreCompetitionOutcomes :
        LET comp == _http_get_json(outcome)
        IN  /\ upstream' = Append(upstream, Contact("core-competition", outcome))
            /\ IF comp.raised THEN Respond(CoreFallbackFailed) /\ UNCHANGED payload
               ELSE /\ payload' = [payload EXCEPT !.comp = comp.val]
                    /\ pc' = "core-hydrate"
                    /\ UNCHANGED responses
    /\ UNCHANGED <<endpoint, mapperVars, cacheVars>>

\* the rest of the synthesizer: teams and situation are fetched where they are
\* references, and the summary-like payload is built
CoreHydrate ==
    /\ pc = "core-hydrate"
    /\ IF payload.comp.t # "dict"
       THEN /\ Respond(CoreFallbackFailed)
            /\ UNCHANGED <<upstream, payload>>
       ELSE \E team_fetches \in [1..Len(payload.comp.competitors) -> CoreTeamOutcomes],
               situation_fetch \in CoreSituationOutcomes,
               venue_fetch \in CoreVenueOutcomes,
               broadcast_fetches \in [1..Len(payload.comp.broadcasts) -> CoreBroadcastOutcomes] :
                LET built == CoreSummaryPayload(payload.event, payload.comp,
                                                team_fetches, situation_fetch,
                                                venue_fetch, broadcast_fetches)
                IN  /\ upstream' = upstream \o HydrateContacts(payload.event, payload.comp,
                                                               team_fetches, situation_fetch,
                                                               venue_fetch, broadcast_fetches)
                    /\ payload' = built.val
                    /\ pc' = "map"
                    /\ UNCHANGED responses
    /\ UNCHANGED <<endpoint, mapperVars, cacheVars>>

\* the common mapping path of get_game_live and its final response
MapGameLive ==
    /\ pc = "map"
    /\ LET header_obj == _map_header(payload, s_TEST123)
       IN  IF header_obj.raised
           THEN Respond(BadGateway("Unexpected ESPN response structure",
                                   {"error", "game_id", "message"}))
           ELSE LET scoring == _map_scoring(payload, header_obj.val)
                    boxscore == _map_boxscore(payload, header_obj.val)
                IN  IF scoring.raised \/ boxscore.raised
                    THEN Respond(BadGateway("Unexpected ESPN response structure",
                                            {"error", "game_id", "message"}))
                    ELSE Respond(Success([header |-> header_obj.val,
                                          scoring |-> scoring.val,
                                          boxscore |-> boxscore.val]))
    /\ UNCHANGED <<endpoint, upstream, payload, mapperVars, cacheVars>>

\* get_games_today: request, decoding, the events loop and the response
GetGamesToday ==
    /\ pc = "scoreboard"
    /\ \E outcome \in ScoreboardOutcomes :
        /\ upstream' = Append(upstream, Contact("scoreboard", outcome))
        /\ IF outcome.kind = "RequestError"
           THEN /\ Respond(BadGateway("Failed to reach ESPN API", {"error", "endpoint", "message"}))
                /\ UNCHANGED payload
           ELSE IF outcome.status_code # 200
           THEN /\ Respond(BadGateway("ESPN API returned non-200 status",
                                      {"error", "endpoint", "status_code"}))
                /\ UNCHANGED payload
           ELSE IF outcome.body.t = "invalid"
           THEN /\ Respond(BadGateway("Invalid JSON from ESPN API", {"error", "endpoint", "message"}))
                /\ UNCHANGED payload
           ELSE /\ payload' = outcome.body
                /\ LET games == get_games_today_body(outcome.body)
                   IN  IF games.raised
                       THEN Respond(BadGateway("Unexpected ESPN response structure",
                                               {"error", "endpoint", "message"}))
                       ELSE Respond(Success([games |-> games.val]))
    /\ UNCHANGED <<endpoint, mapperVars, cacheVars>>

InitLive ==
    /\ call = NoCall
    /\ ret = Pending
    /\ HandlerIdle
    /\ CacheEmpty

NextLive ==
    \/ ReceiveRequest
    \/ FetchSummary
    \/ CoreFetchEvent
    \/ CoreFetchCompetition
    \/ CoreHydrate
    \/ MapGameLive
    \/ GetGamesToday

SpecLive == InitLive /\ [][NextLive]_vars

CoreResources ==
    {"core-event", "core-competition", "core-team", "core-situation", "core-venue",
     "core-broadcast"}

CoreContacted == \E i \in 1..Len(upstream) : upstream[i].resource \in CoreResources

\* the summary endpoint has answered with the given status code
SummaryAnswered(status_codes) ==
    /\ upstream # <<>>
    /\ upstream[1].resource = "summary"
    /\ upstream[1].outcome.kind = "response"
    /\ upstream[1].outcome.status_code \in status_codes

(* C3: get_game_live contacts the Core event API only after the summary endpoint
   answered 404; after a 200 it maps the summary payload and never contacts
   Core; after any other status or a network error it answers 502 without
   contacting Core. *)
C3_CoreOnlyAfterSummary404 ==
    /\ CoreContacted => SummaryAnswered({404})
    /\ (SummaryAnswered({200}) /\ pc = "map") =>
           (payload = upstream[1].outcome.body /\ ~CoreContacted)
    /\ (SummaryAnswered({200}) /\ pc = "done") =>
           (~CoreContacted /\ Len(responses) = 1)
    /\ (/\ upstream # <<>>
        /\ upstream[1].resource = "summary"
        /\ ~SummaryAnswered({200, 404})) =>
           (/\ pc = "done"
            /\ Len(upstream) = 1
            /\ Len(responses) = 1
            /\ responses[1].status_code = 502)

\* the summary answered 404, Core was contacted and the synthesized payload was
\* mapped into a successful response
C3_Witness ==
    /\ pc = "done"
    /\ SummaryAnswered({404})
    /\ CoreContacted
    /\ Len(responses) = 1
    /\ responses[1].status_code = 200

(* C4: every failure of GET /games/{id}/live and GET /games/today (network
   error, non-success upstream status, invalid JSON, Core fallback failure,
   mapping failure) ends in exactly one 502 response whose JSON body has an
   error key and a message key, and never in a 500-class response. *)
C4_FailureIsOne502WithMessage ==
    /\ pc # "done" => responses = <<>>
    /\ pc = "done" =>
        /\ Len(responses) = 1
        /\ responses[1].status_code \in {200, 502}
        /\ responses[1].status_code = 502 =>
               {"error", "message"} \subseteq responses[1].keys

----------------------------------------------------------------------------
(* Header errors                                                           *)

\* a summary-like payload is being mapped, or has been, by get_game_live
MappingPayload ==
    /\ endpoint = "live"
    /\ pc \in {"map", "done"}
    /\ payload.t = "dict"
    /\ "header" \in DOMAIN payload

\* some competitor of the list carries the flag of the given side
Flagged(competitors, side) ==
    \E i \in 1..Len(competitors) :
        /\ competitors[i].t = "dict"
        /\ competitors[i].homeAway.t = "str"
        /\ Lower(competitors[i].homeAway.s) = side

\* the payload cannot give a Header both teams
MissingTeam(p) ==
    \/ p.header.competitions = <<>>
    \/ Len(p.header.competitions[1].competitors) < 2
    \/ ~Flagged(p.header.competitions[1].competitors, s_home)
    \/ ~Flagged(p.header.competitions[1].competitors, s_away)

(* C11: when the payload has no competitions, or its first competition has fewer
   than two competitors, or no competitor is flagged home or none is flagged
   away, _map_header raises instead of returning a Header with a missing team,
   and get_game_live answers 502 for that failure. *)
C11_MissingTeamRaisesAnd502 ==
    (MappingPayload /\ MissingTeam(payload)) =>
        /\ _map_header(payload, s_TEST123).raised
        /\ pc = "done" =>
            /\ Len(responses) = 1
            /\ responses[1].status_code = 502
            /\ responses[1].error = "Unexpected ESPN response structure"

\* the summary served two competitors that are both flagged home, and the request
\* has been answered 502
C11_Witness ==
    /\ MappingPayload
    /\ pc = "done"
    /\ payload.header.competitions # <<>>
    /\ Len(payload.header.competitions[1].competitors) = 2
    /\ ~Flagged(payload.header.competitions[1].competitors, s_away)
    /\ responses[1].status_code = 502

\* a _map_header call on two competitors none of which carries a homeAway flag
C12_Case ==
    /\ call.fn = "_map_header"
    /\ ret.done
    /\ call.arg.header.competitions # <<>>
    /\ Len(call.arg.header.competitions[1].competitors) = 2
    /\ \A i \in 1..2 : ~Truthy(call.arg.header.competitions[1].competitors[i].homeAway)

(* C12: when the first competition has two competitors and the homeAway flags
   are missing, the header mapper takes the first entry as home and the second
   as away, and the mapping succeeds. *)
C12_IndexFallback ==
    C12_Case =>
        /\ ~ret.raised
        /\ ret.val.home_team.id = TeamIdOf(call.arg.header.competitions[1].competitors[1])
        /\ ret.val.away_team.id = TeamIdOf(call.arg.header.competitions[1].competitors[2])

----------------------------------------------------------------------------
(* Quarter summary                                                         *)

\* the competitor of the call that carries the flag of the side
CallCompetitor(side) ==
    LET competitors == call.arg.header.competitions[1].competitors
    IN  competitors[CHOOSE i \in 1..Len(competitors) : SideOf(competitors[i]) = side]

\* the usable line-score entries of a side: an integer period and a readable value
UsableLines(side) ==
    LET ls == CallCompetitor(side).linescores
    IN  {i \in 1..Len(ls) : ls[i].period.t = "int" /\ LinescoreValue(ls[i]).ok}

LineQuarters(side) == {CallCompetitor(side).linescores[i].period.n : i \in UsableLines(side)}

LinePoints(side, q) ==
    LET ls == CallCompetitor(side).linescores
        at == {i \in UsableLines(side) : ls[i].period.n = q}
    IN  IF at = {} THEN 0
        ELSE LinescoreValue(ls[CHOOSE i \in at : \A j \in at : j <= i]).n

\* the scoring events of a side in a quarter that carry an integer point value
ValuedEvents(side, q) ==
    LET plays == call.arg.scoringPlays
    IN  {i \in 1..Len(plays) :
            /\ PlayTeamId(plays[i]) = TeamIdOf(CallCompetitor(side))
            /\ plays[i].period.number = JInt(q)
            /\ plays[i].scoreValue.t = "int"}

EventQuarters(side) ==
    {q \in 1..5 : ValuedEvents(side, q) # {}}

RECURSIVE SumOfValues(_)
SumOfValues(S) ==
    IF S = {} THEN 0
    ELSE LET i == CHOOSE x \in S : TRUE
         IN  call.arg.scoringPlays[i].scoreValue.n + SumOfValues(S \ {i})

EventPoints(side, q) == SumOfValues(ValuedEvents(side, q))

AnyLine == LineQuarters(s_home) \cup LineQuarters(s_away) # {}

(* C13: summary_by_quarter comes from scoring events only when no competitor has
   a usable line-score entry. With a line score, the quarters are those of the
   line score and the points its values; without, the quarters are those of the
   valued scoring events of the two sides and the points their sums. The list is
   strictly ascending by quarter, one entry per observed quarter. *)
C13_QuarterSummary ==
    (call.fn = "_map_scoring" /\ ret.done /\ ~ret.raised) =>
        LET summary == ret.val.summary_by_quarter
            quarters == IF AnyLine THEN LineQuarters(s_home) \cup LineQuarters(s_away)
                        ELSE EventQuarters(s_home) \cup EventQuarters(s_away)
        IN  /\ \A i, j \in 1..Len(summary) : i < j => summary[i].quarter < summary[j].quarter
            /\ {summary[i].quarter : i \in 1..Len(summary)} = quarters
            /\ \A i \in 1..Len(summary) :
                 /\ summary[i].home_points =
                        IF AnyLine THEN LinePoints(s_home, summary[i].quarter)
                        ELSE EventPoints(s_home, summary[i].quarter)
                 /\ summary[i].away_points =
                        IF AnyLine THEN LinePoints(s_away, summary[i].quarter)
                        ELSE EventPoints(s_away, summary[i].quarter)

\* no line score; Q1 home 7, Q1 away 3 and Q2 home 3 gave [{1,7,3},{2,3,0}]
C13_Witness ==
    /\ call.fn = "_map_scoring"
    /\ ret.done
    /\ ~ret.raised
    /\ ~AnyLine
    /\ call.arg.scoringPlays = <<HomeTouchdown(1), AwayFieldGoal(1), HomeFieldGoal(2)>>
    /\ ret.val.summary_by_quarter =
           <<[quarter |-> 1, home_points |-> 7, away_points |-> 3],
             [quarter |-> 2, home_points |-> 3, away_points |-> 0]>>

----------------------------------------------------------------------------
(* Touchdown scorers                                                       *)

MaxTouchdowns == 3

TouchdownBy(team_id, q, athlete) ==
    ScoringPlay(JNull, Team(JStr(team_id)), PeriodInfo(JInt(q)), ClockInfo(JStr(s_clock)),
                JStr(s_play_text), ScoringType(JStr(s_Touchdown_name)), JInt(7), <<athlete>>)

\* an athlete whose only name is the empty string
UnnamedAthlete == [Athlete(JNull) EXCEPT !.name = JStr(s_empty)]

TouchdownPlays ==
    {TouchdownBy(s_12, 1, Athlete(JStr(s_Smith))),
     TouchdownBy(s_12, 2, Athlete(JStr(s_Smith))),
     TouchdownBy(s_8, 1, Athlete(JStr(s_Smith))),
     TouchdownBy(s_12, 3, Athlete(JStr(s_Jones))),
     TouchdownBy(s_12, 4, UnnamedAthlete),
     [TouchdownBy(s_8, 2, Athlete(JStr(s_Jones))) EXCEPT !.athletesInvolved = <<>>],
     [HomeFieldGoal(2) EXCEPT !.athletesInvolved = <<Athlete(JStr(s_Jones))>>]}

TouchdownCalls ==
    {[fn |-> "_map_scoring",
      arg |-> FullPayload(<<Competition(InProgressStatus, ScoringCompetitors(FALSE),
                                        EmptySituation)>>, plays, JNull)] :
        plays \in SeqsUpTo(TouchdownPlays, MaxTouchdowns)}

InitTouchdowns ==
    /\ call \in TouchdownCalls
    /\ ret = Pending
    /\ HandlerIdle
    /\ CacheEmpty

NextTouchdowns == CallMapScoring

SpecTouchdowns == InitTouchdowns /\ [][NextTouchdowns]_vars

\* the returned plays of type TD of that team and that primary player
TouchdownsOf(player, team) ==
    {i \in 1..Len(ret.val.plays) :
        /\ ret.val.plays[i].type = "TD"
        /\ ret.val.plays[i].team = team
        /\ ret.val.plays[i].player_primary = player}

RECURSIVE SumOfCounts(_)
SumOfCounts(scorers) ==
    IF scorers = <<>> THEN 0 ELSE Head(scorers).count + SumOfCounts(Tail(scorers))

\* touchdown_scorers groups exactly the returned TD plays whose primary player
\* satisfies `named`
ScorersGroup(named(_)) ==
    LET scorers == ret.val.touchdown_scorers
        plays == ret.val.plays
        counted == {i \in 1..Len(plays) : plays[i].type = "TD" /\ named(plays[i].player_primary)}
    IN  /\ \A i, j \in 1..Len(scorers) :
                i # j => <<scorers[i].player, scorers[i].team>> # <<scorers[j].player, scorers[j].team>>
        /\ \A i \in 1..Len(scorers) :
                /\ scorers[i].count = Cardinality(TouchdownsOf(scorers[i].player, scorers[i].team))
                /\ scorers[i].count >= 1
        /\ \A i \in counted :
                \E k \in 1..Len(scorers) :
                    scorers[k].player = plays[i].player_primary /\ scorers[k].team = plays[i].team
        /\ SumOfCounts(scorers) = Cardinality(counted)

(* C14 as stated: touchdown_scorers has exactly one entry per distinct (player,
   team) pair, its count is the number of returned TD plays of that team with
   that non-null primary player, and the counts add up to the number of
   returned TD plays that have a non-null primary player. *)
C14_ScorersByNonNullPlayer ==
    (call.fn = "_map_scoring" /\ ret.done /\ ~ret.raised) =>
        ScorersGroup(LAMBDA player : player # JNull)

(* C14 amended: the same, for the returned TD plays whose primary player is a
   non-empty name; a TD play whose primary player is null or the empty string
   has no entry and is not counted. *)
C14_ScorersByNamedPlayer ==
    (call.fn = "_map_scoring" /\ ret.done /\ ~ret.raised) =>
        ScorersGroup(LAMBDA player : player # JNull /\ player # JStr(s_empty))

\* Smith scored twice for home and once for away: two entries, counts 2 and 1
C14_Witness ==
    /\ call.fn = "_map_scoring"
    /\ ret.done
    /\ ~ret.raised
    /\ Len(ret.val.plays) = 3
    /\ ret.val.touchdown_scorers =
           <<[player |-> JStr(s_Smith), team |-> "home", count |-> 2],
             [player |-> JStr(s_Smith), team |-> "away", count |-> 1]>>

----------------------------------------------------------------------------
(* Top players                                                             *)

MaxLines == 4

\* an entry with every field of every category, so that it is eligible in each
FullLine(name, yards) ==
    AthleteEntry(Athlete(JStr(name)),
                 [NoStats EXCEPT !.completions = JInt(20), !.attempts = JInt(30),
                                 !.carries = JInt(4), !.receptions = JInt(5),
                                 !.yards = yards, !.touchdowns = JInt(1),
                                 !.interceptions = JInt(0)])

LineEntries ==
    {FullLine(s_Smith, JInt(120)), FullLine(s_Jones, JInt(50)),
     FullLine(s_Smith, JStr(<<"5", "0">>)), FullLine(s_Jones, JInt(7))}

TopPlayersCalls ==
    {[fn |-> "_map_boxscore",
      arg |-> FullPayload(
                <<Competition(InProgressStatus, ScoringCompetitors(FALSE), EmptySituation)>>,
                <<>>,
                Boxscore(<<>>, <<PlayerSection(Team(JStr(s_12)), <<StatGroup(g, entries)>>)>>))] :
        g \in {"passing", "rushing", "receiving"},
        entries \in SeqsUpTo(LineEntries, MaxLines)}

InitTopPlayers ==
    /\ call \in TopPlayersCalls
    /\ ret = Pending
    /\ HandlerIdle
    /\ CacheEmpty

NextTopPlayers == CallMapBoxscore

SpecTopPlayers == InitTopPlayers /\ [][NextTopPlayers]_vars

\* the eligible entries of the call's group and the category it feeds
CallGroup == call.arg.boxscore.players[1].statistics[1]

\* the returned lines are distinct eligible entries, and no entry left out has
\* more yards than a returned one
TopOfEligible(lines, entries) ==
    \E pick \in [1..Len(lines) -> 1..Len(entries)] :
        /\ \A i, j \in 1..Len(lines) : i # j => pick[i] # pick[j]
        /\ \A i \in 1..Len(lines) :
            /\ lines[i].player = entries[pick[i]].athlete.displayName
            /\ lines[i].yards = PyInt(entries[pick[i]].stats.yards).n
        /\ \A k \in 1..Len(entries) :
            (\A i \in 1..Len(lines) : pick[i] # k) =>
                \A i \in 1..Len(lines) : PyInt(entries[k].stats.yards).n <= lines[i].yards

(* C15: for each of passing, rushing and receiving, _map_boxscore returns at most
   3 player stat lines, in non-increasing order of yards, and they are the lines
   with the highest yards: no eligible line left out has more yards than a line
   that is returned. *)
C15_TopThreeByYards ==
    (call.fn = "_map_boxscore" /\ ret.done /\ ~ret.raised) =>
        \A g \in {"passing", "rushing", "receiving"} :
            LET lines == ret.val.player_stats[g]
                entries == IF CallGroup.name = g THEN CallGroup.athletes ELSE <<>>
            IN  /\ Len(lines) <= 3
                /\ Len(lines) = IF Len(entries) < 3 THEN Len(entries) ELSE 3
                /\ \A i \in 1..(Len(lines) - 1) : lines[i].yards >= lines[i + 1].yards
                /\ TopOfEligible(lines, entries)

\* four eligible rushing lines, the 7-yard one first: three are returned, 120 first
C15_Witness ==
    /\ call.fn = "_map_boxscore"
    /\ ret.done
    /\ ~ret.raised
    /\ CallGroup.name = "rushing"
    /\ Len(CallGroup.athletes) = 4
    /\ CallGroup.athletes[1] = FullLine(s_Jones, JInt(7))
    /\ Len(ret.val.player_stats.rushing) = 3
    /\ ret.val.player_stats.rushing[1].yards = 120
    /\ ret.val.player_stats.rushing[3].yards = 50

----------------------------------------------------------------------------
(* Tolerated fetches of the Core synthesizer                               *)

MaxBroadcasts == 2

TeamResolved == Response(200, CoreTeam(JStr(s_99), JStr(s_Broncos), JStr(s_DEN)))
SituationResolved ==
    Response(200, Situation(JInt(8), JInt(3), JInt(1), JInt(40), JBool(FALSE)))
VenueResolved == Response(200, CoreVenue(JStr(s_Stadium), JStr(s_Denver)))
BroadcastResolved == Response(200, CoreBroadcast(<<>>, JStr(s_ESPN)))

SynthInputCompetitions ==
    {CoreCompetition(FinalStatus,
                     <<CoreCompetitor(JStr(s_home), JStr(s_12), home, CoreScore(JInt(21), JNull)),
                       CoreCompetitor(JStr(s_away), JStr(s_8), CoreRef(s_url), JStr(<<"7">>))>>,
                     situation, venue, broadcasts) :
        home \in {CoreRef(s_url), CoreTeam(JStr(s_12), JStr(s_Broncos), JStr(s_DEN))},
        situation \in {CoreRef(s_url), JNull},
        venue \in {CoreRef(s_url), CoreVenue(JStr(s_Stadium), JNull)},
        broadcasts \in SeqsUpTo({CoreRef(s_url), CoreBroadcast(<<JStr(s_ESPN)>>, JNull)},
                                MaxBroadcasts)}

\* what a fetch can produce for a sub-resource: it is only made through a pointer
FetchesFor(meta, failed, resolved) ==
    IF _get_ref_url(meta) # JNull THEN {failed, resolved} ELSE {resolved}

\* the synthesizer once event and competition are known, with what each
\* tolerated fetch produces
SynthCalls ==
    UNION {{[fn |-> "_build_summary_like_payload_from_core",
             arg |-> [event |-> CoreEvent(<<comp>>, JNull), comp |-> comp,
                      team_fetches |-> <<tf1, tf2>>, situation_fetch |-> sf,
                      venue_fetch |-> vf, broadcast_fetches |-> bf]] :
                tf1 \in FetchesFor(comp.competitors[1].team, RequestError, TeamResolved),
                tf2 \in FetchesFor(comp.competitors[2].team, RequestError, TeamResolved),
                sf \in FetchesFor(Or(comp.situation, JNull), Response(500, JNull),
                                  SituationResolved),
                vf \in FetchesFor(comp.venue, Response(200, InvalidJson), VenueResolved),
                bf \in {f \in [1..Len(comp.broadcasts) -> {RequestError, BroadcastResolved}] :
                           \A i \in 1..Len(comp.broadcasts) :
                               f[i] \in FetchesFor(comp.broadcasts[i], RequestError,
                                                   BroadcastResolved)}} :
           comp \in SynthInputCompetitions}

BuildFromCore(arg) ==
    CoreSummaryPayload(arg.event, arg.comp, arg.team_fetches, arg.situation_fetch,
                       arg.venue_fetch, arg.broadcast_fetches)

CallBuildFromCore ==
    /\ call.fn = "_build_summary_like_payload_from_core"
    /\ ~ret.done
    /\ ret' = BuildFromCore(call.arg)
    /\ UNCHANGED <<call, handlerVars, cacheVars>>

InitSynth ==
    /\ call \in SynthCalls
    /\ ret = Pending
    /\ HandlerIdle
    /\ CacheEmpty

NextSynth == CallBuildFromCore

SpecSynth == InitSynth /\ [][NextSynth]_vars

\* the sub-resources of the call that are pointers, and those whose fetch failed
Pointers(arg) ==
    {[kind |-> "team", i |-> i] :
        i \in {k \in 1..Len(arg.comp.competitors) :
                  _get_ref_url(Or(arg.comp.competitors[k].team, EmptyDict)) # JNull}}
    \cup (IF _get_ref_url(Or(arg.comp.situation, JNull)) # JNull
          THEN {[kind |-> "situation", i |-> 1]} ELSE {})
    \cup (IF _get_ref_url(Or(arg.comp.venue, EmptyDict)) # JNull
          THEN {[kind |-> "venue", i |-> 1]} ELSE {})
    \cup {[kind |-> "broadcast", i |-> i] :
            i \in {k \in 1..Len(arg.comp.broadcasts) :
                      _get_ref_url(arg.comp.broadcasts[k]) # JNull}}

FetchOf(arg, ptr) ==
    CASE ptr.kind = "team" -> arg.team_fetches[ptr.i]
      [] ptr.kind = "situation" -> arg.situation_fetch
      [] ptr.kind = "venue" -> arg.venue_fetch
      [] ptr.kind = "broadcast" -> arg.broadcast_fetches[ptr.i]

FailedPointers(arg) == {ptr \in Pointers(arg) : _http_get_json(FetchOf(arg, ptr)).raised}

\* the same call had the pointer resolved
WithResolved(arg, ptr) ==
    CASE ptr.kind = "team" -> [arg EXCEPT !.team_fetches[ptr.i] = TeamResolved]
      [] ptr.kind = "situation" -> [arg EXCEPT !.situation_fetch = SituationResolved]
      [] ptr.kind = "venue" -> [arg EXCEPT !.venue_fetch = VenueResolved]
      [] ptr.kind = "broadcast" -> [arg EXCEPT !.broadcast_fetches[ptr.i] = BroadcastResolved]

\* an object none of whose fields holds a value
RECURSIVE EmptyObject(_)
EmptyObject(o) ==
    /\ o.t = "dict"
    /\ \A k \in DOMAIN o \ {"t"} :
        IF k = "names" THEN o[k] = <<>>
        ELSE IF o[k].t = "dict" THEN EmptyObject(o[k])
        ELSE ~Truthy(o[k])

\* a team object that carries no team data: at most the competitor's own id
EmptyTeam(team, c) ==
    /\ EmptyObject([team EXCEPT !.id = JNull])
    /\ team.id = JStr(PyStr(Or(c.id, JStr(s_empty))))

SameExcept(got, ref, kind) ==
    /\ kind = "team" \/ got.competitors = ref.competitors
    /\ kind = "situation" \/ got.situation = ref.situation
    /\ kind = "venue" \/ got.venue = ref.venue
    /\ kind = "broadcast" \/ got.broadcasts = ref.broadcasts

(* C16: when the synthesizer fails to resolve the pointer of one sub-resource (a
   team, the situation, the venue or a broadcast), the synthesis still succeeds,
   the corresponding sub-object of the payload is present but empty, and every
   sibling sub-object is populated exactly as had the pointer resolved. *)
C16_FailedPointerLeavesEmptyObject ==
    (call.fn = "_build_summary_like_payload_from_core" /\ ret.done) =>
        /\ ~ret.raised
        /\ \A ptr \in FailedPointers(call.arg) :
            FailedPointers(call.arg) = {ptr} =>
                LET got == ret.val.header.competitions[1]
                    ref == BuildFromCore(WithResolved(call.arg, ptr)).val.header.competitions[1]
                IN  /\ SameExcept(got, ref, ptr.kind)
                    /\ ptr.kind = "team" =>
                        /\ Len(got.competitors) = Len(ref.competitors)
                        /\ EmptyTeam(got.competitors[ptr.i].team, call.arg.comp.competitors[ptr.i])
                        /\ \A k \in 1..Len(ref.competitors) :
                            k # ptr.i => got.competitors[k] = ref.competitors[k]
                        /\ [got.competitors[ptr.i] EXCEPT !.team = JNull]
                            = [ref.competitors[ptr.i] EXCEPT !.team = JNull]
                    /\ ptr.kind = "situation" => EmptyObject(got.situation)
                    /\ ptr.kind = "venue" => EmptyObject(got.venue)
                    /\ ptr.kind = "broadcast" =>
                        /\ Len(got.broadcasts) = Len(ref.broadcasts)
                        /\ EmptyObject(got.broadcasts[ptr.i])
                        /\ \A k \in 1..Len(ref.broadcasts) :
                            k # ptr.i => got.broadcasts[k] = ref.broadcasts[k]

----------------------------------------------------------------------------
(* Mapping a synthesized payload                                           *)

\* the handler holds a payload that the Core synthesizer built
SynthesizedPayload == CoreContacted /\ payload.t = "dict"

NoLines == [passing |-> <<>>, rushing |-> <<>>, receiving |-> <<>>]

(* C17: every payload produced by _build_summary_like_payload_from_core has a
   header wrapper with exactly one competition and no scoringPlays or boxscore
   section, and mapping it never fails for that reason: _map_scoring returns
   empty plays and touchdown_scorers, and _map_boxscore returns empty passing,
   rushing and receiving lists and team stats with every field unset. *)
C17_SynthesizedHasHeaderOnly ==
    SynthesizedPayload =>
        /\ DOMAIN payload = {"t", "header"}
        /\ Len(payload.header.competitions) = 1
        /\ pc = "done" =>
            /\ Len(responses) = 1
            /\ responses[1].status_code # 200 => _map_header(payload, s_TEST123).raised
            /\ responses[1].status_code = 200 =>
                /\ responses[1].content.scoring.plays = <<>>
                /\ responses[1].content.scoring.touchdown_scorers = <<>>
                /\ responses[1].content.boxscore.player_stats = NoLines
                /\ responses[1].content.boxscore.team_stats.home = NoTeamStats
                /\ responses[1].content.boxscore.team_stats.away = NoTeamStats

\* a synthesized payload was mapped and answered with 200
C17_Witness ==
    /\ SynthesizedPayload
    /\ pc = "done"
    /\ responses[1].status_code = 200
    /\ responses[1].content.scoring.plays = <<>>
    /\ responses[1].content.header.home_team.id = s_99

----------------------------------------------------------------------------
(* Score coercion                                                          *)

MaxScore == 6

\* the representations of a raw score
ScoreForms ==
    {JNull, JAbsent, JStr(s_empty), JStr(s_oops), JStr(<<" ", "1", "4", " ">>),
     CoreScore(JNull, JNull)}
    \cup {JInt(n) : n \in 0..MaxScore}
    \cup {JStr(IntToStr(n)) : n \in 0..MaxScore}
    \cup {CoreScore(JInt(n), JNull) : n \in 0..MaxScore}
    \cup {CoreScore(JNull, JInt(n)) : n \in 0..MaxScore}
    \cup {CoreScore(JNull, JStr(IntToStr(n))) : n \in 0..MaxScore}

ScoreCalls ==
    {[fn |-> "_map_team_header",
      arg |-> Competitor(JStr(s_home), Team(JStr(s_12)), score)] : score \in ScoreForms}
    \cup {[fn |-> "synthesize_then_map_team_header",
           arg |-> CoreCompetitor(JStr(s_home), JStr(s_12), Team(JStr(s_12)), score)] :
            score \in ScoreForms}

CallMapTeamHeader ==
    /\ call.fn = "_map_team_header"
    /\ ~ret.done
    /\ ret' = _map_team_header(call.arg)
    /\ UNCHANGED <<call, handlerVars, cacheVars>>

\* a Core competitor through the synthesizer's competitors loop, then mapped
CallSynthesizeThenMapTeamHeader ==
    /\ call.fn = "synthesize_then_map_team_header"
    /\ ~ret.done
    /\ ret' = _map_team_header(SynthCompetitor(call.arg, CoreTeamData(call.arg, RequestError)))
    /\ UNCHANGED <<call, handlerVars, cacheVars>>

InitScore ==
    /\ call \in ScoreCalls
    /\ ret = Pending
    /\ HandlerIdle
    /\ CacheEmpty

NextScore == CallMapTeamHeader \/ CallSynthesizeThenMapTeamHeader

SpecScore == InitScore /\ [][NextScore]_vars

\* the numeric value of a raw score in any of its representations, 0 when it has none
NumericValue(score) ==
    CASE score.t = "dict" ->
            IF PyInt(score.value).ok THEN PyInt(score.value).n
            ELSE IF PyInt(score.displayValue).ok THEN PyInt(score.displayValue).n
            ELSE 0
      [] score.t \in {"int", "str"} -> IF PyInt(score).ok THEN PyInt(score).n ELSE 0
      [] OTHER -> 0

(* C18: a competitor's header score is the numeric value of its raw score
   whichever representation is used: an object {value: n} or {displayValue: n}
   yields n, a number n yields n, a digit string yields its integer, and only an
   unparseable or missing score yields 0; both for a payload mapped directly by
   _map_team_header and for a Core competitor passed through the synthesizer and
   then _map_team_header. *)
C18_ScoreIsNumericValue ==
    (call.fn \in {"_map_team_header", "synthesize_then_map_team_header"} /\ ret.done) =>
        /\ ~ret.raised
        /\ ret.val.score = NumericValue(call.arg.score)

----------------------------------------------------------------------------
(* app/services/scoreboard.py: get_current_nfl_week                        *)

\* code points of the characters of an ISO date
CharCode ==
    "-" :> 45 @@ "0" :> 48 @@ "1" :> 49 @@ "2" :> 50 @@ "3" :> 51 @@ "4" :> 52
    @@ "5" :> 53 @@ "6" :> 54 @@ "7" :> 55 @@ "8" :> 56 @@ "9" :> 57

\* a <= b on str
RECURSIVE StrLeq(_, _)
StrLeq(a, b) ==
    IF a = <<>> THEN TRUE
    ELSE IF b = <<>> THEN FALSE
    ELSE IF Head(a) # Head(b) THEN CharCode[Head(a)] < CharCode[Head(b)]
    ELSE StrLeq(Tail(a), Tail(b))

Week(number, startDate, endDate) ==
    [number |-> number, startDate |-> startDate, endDate |-> endDate]

\* get_current_nfl_week, given what get_nfl_weeks() returned and today's ET date
get_current_nfl_week(weeks, today_str) ==
    IF weeks = <<>> THEN JNull
    ELSE LET hits == {i \in 1..Len(weeks) :
                         /\ weeks[i].startDate # <<>>
                         /\ weeks[i].endDate # <<>>
                         /\ StrLeq(weeks[i].startDate, today_str)
                         /\ StrLeq(today_str, weeks[i].endDate)}
         IN  IF hits # {}
             THEN JInt(weeks[CHOOSE i \in hits : \A j \in hits : i <= j].number)
             ELSE JInt(weeks[Len(weeks)].number)

MaxDay == 4
MaxWeeks == 3

\* date.isoformat() of a day of September 2025
IsoDate(d) ==
    <<"2", "0", "2", "5", "-", "0", "9", "-", DigitChar[(d \div 10) + 1], DigitChar[(d % 10) + 1]>>

\* weeks of two days each, overlapping their neighbours, and a week without dates
CalendarWeeks ==
    {Week(d, IsoDate(d), IsoDate(d + 1)) : d \in 1..(MaxDay - 1)}
    \cup {Week(MaxDay, <<>>, <<>>)}

CurrentWeekCalls ==
    {[fn |-> "get_current_nfl_week", arg |-> [weeks |-> weeks, today |-> IsoDate(d)]] :
        weeks \in SeqsUpTo(CalendarWeeks, MaxWeeks), d \in 1..(MaxDay + 1)}

CallGetCurrentNflWeek ==
    /\ call.fn = "get_current_nfl_week"
    /\ ~ret.done
    /\ ret' = Return(get_current_nfl_week(call.arg.weeks, call.arg.today))
    /\ UNCHANGED <<call, handlerVars, cacheVars>>

InitWeeks ==
    /\ call \in CurrentWeekCalls
    /\ ret = Pending
    /\ HandlerIdle
    /\ CacheEmpty

NextWeeks == CallGetCurrentNflWeek

SpecWeeks == InitWeeks /\ [][NextWeeks]_vars

\* the week's range contains today, by the calendar
WeekContains(w, today) ==
    \E s, e, d \in 1..(MaxDay + 1) :
        /\ w.startDate = IsoDate(s)
        /\ w.endDate = IsoDate(e)
        /\ today = IsoDate(d)
        /\ s <= d
        /\ d <= e

\* the weeks that no week of the list ends after (a week without dates ends first)
ChronologicallyLast(weeks) ==
    {i \in 1..Len(weeks) : \A j \in 1..Len(weeks) : StrLeq(weeks[j].endDate, weeks[i].endDate)}

FirstContaining(weeks, today) ==
    {i \in 1..Len(weeks) :
        /\ WeekContains(weeks[i], today)
        /\ \A j \in 1..(i - 1) : ~WeekContains(weeks[j], today)}

(* C19: get_current_nfl_week returns the number of the first week, in list order,
   whose [startDate, endDate] range inclusively contains today's Eastern date; if
   no week contains today it returns the chronologically last week; it returns
   no week only when the week list is empty. *)
C19_FirstContainingElseChronologicallyLast ==
    (call.fn = "get_current_nfl_week" /\ ret.done) =>
        LET weeks == call.arg.weeks
            first == FirstContaining(weeks, call.arg.today)
        IN  /\ ret.val = JNull <=> weeks = <<>>
            /\ first # {} => \E i \in first : ret.val = JInt(weeks[i].number)
            /\ (weeks # <<>> /\ first = {}) =>
                \E i \in ChronologicallyLast(weeks) : ret.val = JInt(weeks[i].number)

----------------------------------------------------------------------------
(* app/utils/cache.py: TTLCache                                            *)

ttl == 2
MaxTime == 5

CacheValues == {JInt(1), JInt(2)}

\* a variant of get that still serves an entry whose age is exactly ttl
TTLCache_get_inclusive(data, key, t) ==
    IF data[key].present
    THEN IF t - data[key].ts <= ttl
         THEN [val |-> data[key].val, data |-> data]
         ELSE [val |-> JNull, data |-> [data EXCEPT ![key] = NoEntry]]
    ELSE [val |-> JNull, data |-> data]

\* TTLCache.get at time t: what it returns and what it leaves in _data
TTLCache_get(data, key, t) ==
    IF data[key].present
    THEN IF t - data[key].ts < ttl
         THEN [val |-> data[key].val, data |-> data]
         ELSE [val |-> JNull, data |-> [data EXCEPT ![key] = NoEntry]]
    ELSE [val |-> JNull, data |-> data]

\* TTLCache.set at time t
TTLCache_set(data, key, value, t) == [data EXCEPT ![key] = Entry(t, value)]

CacheGet ==
    \E key \in CacheKeys :
        /\ call' = [fn |-> "get", key |-> key, at |-> now]
        /\ ret' = Return(TTLCache_get(_data, key, now).val)
        /\ _data' = TTLCache_get(_data, key, now).data
        /\ UNCHANGED <<now, last_set, threads, handlerVars>>

CacheSet ==
    \E key \in CacheKeys, value \in CacheValues :
        /\ call' = [fn |-> "set", key |-> key, at |-> now]
        /\ ret' = Return(JNull)
        /\ _data' = TTLCache_set(_data, key, value, now)
        /\ last_set' = [last_set EXCEPT ![key] = Entry(now, value)]
        /\ UNCHANGED <<now, threads, handlerVars>>

\* the clock advances
Tick ==
    /\ now < MaxTime
    /\ now' = now + 1
    /\ UNCHANGED <<mapperVars, handlerVars, _data, last_set, threads>>

InitCache ==
    /\ call = NoCall
    /\ ret = Pending
    /\ HandlerIdle
    /\ CacheEmpty

NextCache == CacheGet \/ CacheSet \/ Tick

SpecCache == InitCache /\ [][NextCache]_vars

\* the last operation was a get, and what it found set for its key
LastGet == call.fn = "get" /\ ret.done
AgeAtGet == call.at - last_set[call.key].ts

\* a get returns the latest value set if that is younger than ttl, else None,
\* and an entry of age ttl or more is gone after the get
GetServesFreshOnly ==
    LastGet =>
        /\ ret.val # JNull =>
            /\ last_set[call.key].present
            /\ ret.val = last_set[call.key].val
            /\ AgeAtGet < ttl
        /\ (last_set[call.key].present /\ AgeAtGet >= ttl) =>
            /\ ret.val = JNull
            /\ ~_data[call.key].present

\* an entry goes away only in a get of its key at age ttl or more, and a step
\* changes no entry but that of the key it is about
RemovalOnlyByExpiredGet ==
    \A k \in CacheKeys :
        /\ (_data[k].present /\ ~_data'[k].present) =>
            /\ call'.fn = "get"
            /\ call'.key = k
            /\ now - _data[k].ts >= ttl
        /\ _data'[k] # _data[k] => (call'.fn \in {"get", "set"} /\ call'.key = k)

(* C20: for any sequence of set and get operations and clock advances on the TTL
   cache, get(k) returns a value v only if v is the value of the most recent
   set(k, v) and that set happened less than ttl seconds before the get; a get on
   an entry whose age is ttl or more returns None and removes that entry; entries
   are removed only by such a get, and an operation on key k leaves the entries
   of every other key unchanged. *)
C20_TtlCache == [][GetServesFreshOnly' /\ RemovalOnlyByExpiredGet]_vars

\* a get of "a" exactly ttl after its set returned None and removed the entry,
\* while the entry of "b" stayed
C20_Witness ==
    /\ LastGet
    /\ call.key = "a"
    /\ last_set["a"].present
    /\ AgeAtGet = ttl
    /\ ret.val = JNull
    /\ ~_data["a"].present
    /\ _data["b"].present

----------------------------------------------------------------------------
(* app/utils/cache.py under the threads of sync endpoints                  *)

\* a thread that finished a call: what the call did
Finished(outcome, val) == [at |-> "idle", outcome |-> outcome, val |-> val]

\* get, `if key in self._data`: absent ends the call with None
ThreadGetTest(t) ==
    /\ threads[t].at = "idle"
    /\ \E key \in CacheKeys :
        threads' = [threads EXCEPT ![t] =
                       IF _data[key].present
                       THEN [at |-> "read", outcome |-> "none", key |-> key]
                       ELSE Finished("returned", JNull)]
    /\ UNCHANGED <<_data, now, last_set, mapperVars, handlerVars>>

\* get, `ts, val = self._data[key]`: KeyError when the key is gone
ThreadGetRead(t) ==
    /\ threads[t].at = "read"
    /\ LET key == threads[t].key
       IN  threads' = [threads EXCEPT ![t] =
                          IF _data[key].present
                          THEN [at |-> "compare", outcome |-> "none", key |-> key,
                                ts |-> _data[key].ts, val |-> _data[key].val]
                          ELSE Finished("KeyError", JNull)]
    /\ UNCHANGED <<_data, now, last_set, mapperVars, handlerVars>>

\* get, `if time.time() - ts < self.ttl: return val`
ThreadGetCompare(t) ==
    /\ threads[t].at = "compare"
    /\ threads' = [threads EXCEPT ![t] =
                      IF now - threads[t].ts < ttl
                      THEN Finished("returned", threads[t].val)
                      ELSE [threads[t] EXCEPT !.at = "delete"]]
    /\ UNCHANGED <<_data, now, last_set, mapperVars, handlerVars>>

\* get, `del self._data[key]` and `return None`: KeyError when the key is gone
ThreadGetDelete(t) ==
    /\ threads[t].at = "delete"
    /\ LET key == threads[t].key
       IN  IF _data[key].present
           THEN /\ _data' = [_data EXCEPT ![key] = NoEntry]
                /\ threads' = [threads EXCEPT ![t] = Finished("returned", JNull)]
           ELSE /\ threads' = [threads EXCEPT ![t] = Finished("KeyError", JNull)]
                /\ UNCHANGED _data
    /\ UNCHANGED <<now, last_set, mapperVars, handlerVars>>

\* set, one dict store
ThreadSet(t) ==
    /\ threads[t].at = "idle"
    /\ \E key \in CacheKeys, value \in CacheValues :
        /\ _data' = TTLCache_set(_data, key, value, now)
        /\ last_set' = [last_set EXCEPT ![key] = Entry(now, value)]
    /\ threads' = [threads EXCEPT ![t] = Finished("returned", JNull)]
    /\ UNCHANGED <<now, mapperVars, handlerVars>>

InitThreads ==
    /\ call = NoCall
    /\ ret = Pending
    /\ HandlerIdle
    /\ CacheEmpty

NextThreads ==
    \/ \E t \in Threads :
        \/ ThreadGetTest(t)
        \/ ThreadGetRead(t)
        \/ ThreadGetCompare(t)
        \/ ThreadGetDelete(t)
        \/ ThreadSet(t)
    \/ Tick

SpecThreads == InitThreads /\ [][NextThreads]_vars

\* an entry stored less than ttl ago
Fresh(key) == last_set[key].present /\ now - last_set[key].ts < ttl

(* C21: the shared TTL cache is safe under concurrent read/write: when get and
   set calls on the same key from concurrent request threads interleave at the
   granularity of get's steps (membership test, read, expiry comparison,
   delete), no get raises an error, and no get deletes or hides an entry that
   was stored less than ttl seconds ago. *)
C21_ConcurrentCacheSafe ==
    /\ \A t \in Threads : threads[t].outcome # "KeyError"
    /\ \A key \in CacheKeys : Fresh(key) => _data[key] = last_set[key]

----------------------------------------------------------------------------
(* Mapping the same payload at two moments                                 *)

\* datetime.now().year and datetime.now(timezone.utc): the year turns at MaxTime
YearAt(t) == IF t < MaxTime THEN 2025 ELSE 2026
UtcAt(t) == [t |-> "datetime", at |-> t]

\* season = int(season.get("year") or datetime.now().year)
HeaderSeason(header, t) ==
    LET raw == Or(DictGet(header, "season"), EmptyDict)
        season == IF raw.t = "dict" THEN raw ELSE EmptyDict
        year == Or(DictGet(season, "year"), JInt(YearAt(t)))
    IN  IF PyInt(year).ok THEN Return(PyInt(year).n)
        ELSE Raise(IF year.t = "str" THEN "ValueError" ELSE "TypeError")

\* the Header built from what _map_header computed and the season read at t
HeaderAt(header_obj, season, t) ==
    IF header_obj.raised THEN header_obj
    ELSE IF season.raised THEN season
    ELSE Return(header_obj.val @@ [season |-> season.val, last_updated_utc |-> UtcAt(t)])

\* _map_header called at time t, with the fields of Header that read the clock
MapHeaderAt(p, game_id, t) == HeaderAt(_map_header(p, game_id), HeaderSeason(p.header, t), t)

\* the response built from the three mapped parts
MappedResponse(header_obj, scoring, boxscore) ==
    IF scoring.raised THEN scoring
    ELSE IF boxscore.raised THEN boxscore
    ELSE Return([header |-> header_obj.val, scoring |-> scoring.val,
                 boxscore |-> boxscore.val])

MapSections(p, header_obj) ==
    IF header_obj.raised THEN header_obj
    ELSE MappedResponse(header_obj, _map_scoring(p, header_obj.val),
                        _map_boxscore(p, header_obj.val))

\* the three mappers, called at time t on one payload
MapAllAt(p, t) == MapSections(p, MapHeaderAt(p, s_TEST123, t))

WithSeason(p, season) == [p EXCEPT !.header = p.header @@ [season |-> season]]

RemapPayloads ==
    {WithSeason(p, season) :
        p \in {q \in LivePayloads : q.t = "dict"},
        season \in {JNull, JInt(2024), [t |-> "dict", year |-> JNull],
                    [t |-> "dict", year |-> JInt(2024)],
                    [t |-> "dict", year |-> JStr(<<"2", "0", "2", "4">>)],
                    [t |-> "dict", year |-> JStr(s_oops)]}}

\* the payload is mapped once more; responses collects what each mapping gave
Remap ==
    /\ call.fn = "remap"
    /\ Len(responses) < 2
    /\ responses' = Append(responses, MapAllAt(call.arg, now))
    /\ UNCHANGED <<call, ret, pc, endpoint, upstream, payload, _data, now, last_set, threads>>

InitRemap ==
    /\ call \in {[fn |-> "remap", arg |-> p] : p \in RemapPayloads}
    /\ ret = Pending
    /\ HandlerIdle
    /\ CacheEmpty

NextRemap == Remap \/ Tick

SpecRemap == InitRemap /\ [][NextRemap]_vars

\* a mapping result with the field that is defined as "now" blanked
WithoutLastUpdated(r) ==
    IF r.raised THEN r
    ELSE [r EXCEPT !.val.header.last_updated_utc = JNull]

(* C22: mapping the same raw payload twice with _map_header, _map_scoring and
   _map_boxscore yields identical output in every field except
   last_updated_utc, whatever the wall-clock time of the two calls; no other
   output field depends on the current time. *)
C22_RemapIdenticalButLastUpdated ==
    (call.fn = "remap" /\ Len(responses) = 2) =>
        WithoutLastUpdated(responses[1]) = WithoutLastUpdated(responses[2])

----------------------------------------------------------------------------
(* app/services/scoreboard.py: the timestamp normalizers                   *)

\* utc_timestamp.replace("Z", "+00:00")
RECURSIVE ReplaceZ(_)
ReplaceZ(s) ==
    IF s = <<>> THEN <<>>
    ELSE IF Head(s) = "Z" THEN <<"+", "0", "0", ":", "0", "0">> \o ReplaceZ(Tail(s))
    ELSE <<Head(s)>> \o ReplaceZ(Tail(s))

\* utc_timestamp.split("T")[0]
RECURSIVE BeforeT(_)
BeforeT(s) ==
    IF s = <<>> \/ Head(s) = "T" THEN <<>> ELSE <<Head(s)>> \o BeforeT(Tail(s))

Pad2(n) == <<DigitChar[(n \div 10) + 1], DigitChar[(n % 10) + 1]>>
Pad4(n) == Pad2(n \div 100) \o Pad2(n % 100)

DaysInMonth(year, month) ==
    IF month = 2 THEN (IF year % 4 = 0 /\ (year % 100 # 0 \/ year % 400 = 0) THEN 29 ELSE 28)
    ELSE IF month \in {4, 6, 9, 11} THEN 30
    ELSE 31

\* datetime.fromisoformat on YYYY-MM-DDTHH:MM+00:00: the fields, or that it raises
FromIsoFormat(s) ==
    LET field(a, b) == SubSeq(s, a, b)
        shaped == /\ Len(s) = 22
                  /\ IsDigits(field(1, 4)) /\ s[5] = "-"
                  /\ IsDigits(field(6, 7)) /\ s[8] = "-"
                  /\ IsDigits(field(9, 10)) /\ s[11] = "T"
                  /\ IsDigits(field(12, 13)) /\ s[14] = ":"
                  /\ IsDigits(field(15, 16))
                  /\ field(17, 22) = <<"+", "0", "0", ":", "0", "0">>
    IN  IF ~shaped THEN [ok |-> FALSE]
        ELSE LET year == DigitsValue(field(1, 4))
                 month == DigitsValue(field(6, 7))
                 day == DigitsValue(field(9, 10))
                 hour == DigitsValue(field(12, 13))
                 minute == DigitsValue(field(15, 16))
             IN  IF /\ year >= 1
                    /\ month \in 1..12
                    /\ day \in 1..DaysInMonth(year, month)
                    /\ hour \in 0..23
                    /\ minute \in 0..59
                 THEN [ok |-> TRUE, year |-> year, month |-> month, day |-> day,
                       hour |-> hour, minute |-> minute]
                 ELSE [ok |-> FALSE]

\* astimezone(ZoneInfo("America/New_York")) of a UTC time while standard time is
\* in force there: five hours earlier
ToEastern(dt) ==
    IF dt.hour >= 5 THEN [dt EXCEPT !.hour = dt.hour - 5]
    ELSE IF dt.day > 1 THEN [dt EXCEPT !.hour = dt.hour + 19, !.day = dt.day - 1]
    ELSE IF dt.month > 1
    THEN [dt EXCEPT !.hour = dt.hour + 19, !.month = dt.month - 1,
                    !.day = DaysInMonth(dt.year, dt.month - 1)]
    ELSE [dt EXCEPT !.hour = dt.hour + 19, !.year = dt.year - 1, !.month = 12, !.day = 31]

\* date.isoformat() and datetime.isoformat() of an Eastern standard time
DateIso(dt) == Pad4(dt.year) \o <<"-">> \o Pad2(dt.month) \o <<"-">> \o Pad2(dt.day)
DateTimeIso(dt) ==
    DateIso(dt) \o <<"T">> \o Pad2(dt.hour) \o <<":">> \o Pad2(dt.minute)
    \o <<":", "0", "0", "-", "0", "5", ":", "0", "0">>

_convert_utc_to_et_date(utc_timestamp) ==
    IF utc_timestamp = <<>> \/ ~Contains(<<"T">>, utc_timestamp) THEN Return(utc_timestamp)
    ELSE LET utc_dt == FromIsoFormat(ReplaceZ(utc_timestamp))
         IN  IF utc_dt.ok THEN Return(DateIso(ToEastern(utc_dt)))
             ELSE Return(BeforeT(utc_timestamp))

_convert_utc_timestamp_to_et(utc_timestamp) ==
    IF utc_timestamp = <<>> THEN Return(utc_timestamp)
    ELSE LET utc_dt == FromIsoFormat(ReplaceZ(utc_timestamp))
         IN  IF utc_dt.ok THEN Return(DateTimeIso(ToEastern(utc_dt)))
             ELSE Return(utc_timestamp)

\* ESPN timestamps of December 2025 and January 2026, well formed or with a
\* field out of range, and strings that are no timestamps
Stamp(year, month, day, hour, zone) ==
    Pad4(year) \o <<"-">> \o Pad2(month) \o <<"-">> \o Pad2(day) \o <<"T">> \o Pad2(hour)
    \o <<":", "2", "0">> \o zone

TimestampInputs ==
    {Stamp(ym[1], ym[2], day, hour, zone) :
        ym \in {<<2025, 12>>, <<2026, 1>>, <<2025, 13>>},
        day \in {1, 15, 31},
        hour \in {0, 4, 5, 23, 24},
        zone \in {<<"Z">>, <<"+", "0", "0", ":", "0", "0">>}}
    \cup {<<>>, s_oops, <<"n", "o", "T", "i", "m", "e">>, <<"T">>,
          <<"2", "0", "2", "5", "-", "1", "2", "-", "0", "3">>,
          <<"2", "0", "2", "5", "-", "1", "2", "-", "0", "3", "T", "x", "x", "Z">>}

TimestampCalls ==
    {[fn |-> f, arg |-> x] :
        f \in {"_convert_utc_to_et_date", "_convert_utc_timestamp_to_et"},
        x \in TimestampInputs}

CallConvertUtcToEtDate ==
    /\ call.fn = "_convert_utc_to_et_date"
    /\ ~ret.done
    /\ ret' = _convert_utc_to_et_date(call.arg)
    /\ UNCHANGED <<call, handlerVars, cacheVars>>

CallConvertUtcTimestampToEt ==
    /\ call.fn = "_convert_utc_timestamp_to_et"
    /\ ~ret.done
    /\ ret' = _convert_utc_timestamp_to_et(call.arg)
    /\ UNCHANGED <<call, handlerVars, cacheVars>>

InitTimestamps ==
    /\ call \in TimestampCalls
    /\ ret = Pending
    /\ HandlerIdle
    /\ CacheEmpty

NextTimestamps == CallConvertUtcToEtDate \/ CallConvertUtcTimestampToEt

SpecTimestamps == InitTimestamps /\ [][NextTimestamps]_vars

\* the input is a timestamp that fromisoformat accepts
Parseable(x) == FromIsoFormat(ReplaceZ(x)).ok

(* C23: for every input string, the timestamp normalizers
   _convert_utc_timestamp_to_et and _convert_utc_to_et_date never raise, and
   when the input cannot be parsed as a timestamp they return the original
   string unchanged. *)
C23_UnparseablePassesThrough ==
    (call.fn \in {"_convert_utc_to_et_date", "_convert_utc_timestamp_to_et"} /\ ret.done) =>
        /\ ~ret.raised
        /\ ~Parseable(call.arg) => ret.val = call.arg

----------------------------------------------------------------------------
(* app/services/games.py: game_details, the situation block                *)

\* d.get(k): None when the key is missing
PyGet(d, k) == IF k \in DOMAIN d THEN d[k] ELSE JNull
\* d.get(k) or []
ListOf(d, k) == IF k \in DOMAIN d THEN d[k] ELSE <<>>

_extract_period(comp, header) ==
    LET period == PyGet(Or(PyGet(comp, "status"), EmptyDict), "period")
    IN  IF IsInstanceInt(period) THEN period
        ELSE LET header_period == PyGet(Or(PyGet(header, "status"), EmptyDict), "period")
             IN  IF IsInstanceInt(header_period) THEN header_period ELSE JNull

_extract_possession_team_id(raw_situation) ==
    LET possession == PyGet(raw_situation, "possession")
    IN  IF possession.t = "null" THEN JNull
        ELSE IF possession.t = "dict"
        THEN LET team_id == OrNone(PyGet(possession, "id"), PyGet(possession, "uid"))
             IN  IF team_id.t = "null" THEN JNull ELSE JStr(PyStr(team_id))
        ELSE JStr(PyStr(possession))

\* the try block around espn.scoreboard: the situation of the first event
\* whose id reads as event_id, None when the fetch raised
ScoreboardSituation(scoreboard_fetch, event_id) ==
    IF scoreboard_fetch.raised THEN JNull
    ELSE LET events == ListOf(scoreboard_fetch.val, "events")
             matching == {i \in 1..Len(events) : PyStr(PyGet(events[i], "id")) = event_id}
         IN  IF matching = {} THEN JNull
             ELSE LET event == events[CHOOSE i \in matching : \A j \in matching : i <= j]
                      listed == ListOf(event, "competitions")
                      competitions == IF listed = <<>> THEN <<EmptyDict>> ELSE listed
                  IN  PyGet(competitions[1], "situation")

\* the choice between the two situations, reading the summary first
RawSituation_summary_first(scoreboard_situation, comp0) ==
    IF Truthy(PyGet(comp0, "situation")) THEN PyGet(comp0, "situation")
    ELSE Or(scoreboard_situation, EmptyDict)

\* raw_situation = scoreboard_situation if scoreboard_situation else (comp0.get("situation") or {})
RawSituation(scoreboard_situation, comp0) ==
    IF Truthy(scoreboard_situation) THEN scoreboard_situation
    ELSE Or(PyGet(comp0, "situation"), EmptyDict)

GameSituation(raw_situation, comp0, header) ==
    [t |-> "dict",
     clock |-> PyGet(raw_situation, "clock"),
     period |-> _extract_period(comp0, header),
     down |-> PyGet(raw_situation, "down"),
     distance |-> PyGet(raw_situation, "distance"),
     yardLine |-> PyGet(raw_situation, "yardLine"),
     shortDownDistanceText |-> PyGet(raw_situation, "shortDownDistanceText"),
     downDistanceText |-> PyGet(raw_situation, "downDistanceText"),
     possessionTeamId |-> _extract_possession_team_id(raw_situation),
     possessionText |-> PyGet(raw_situation, "possessionText"),
     isRedZone |-> PyGet(raw_situation, "isRedZone")]

\* game_details as far as the situation of its result goes
game_details(raw, scoreboard_fetch, event_id) ==
    LET scoreboard_situation == ScoreboardSituation(scoreboard_fetch, event_id)
        header == Or(PyGet(raw, "header"), EmptyDict)
        listed == ListOf(header, "competitions")
        comp0 == IF listed = <<>> THEN EmptyDict ELSE Or(listed[1], EmptyDict)
        raw_situation == RawSituation(scoreboard_situation, comp0)
    IN  Return([situation |-> IF Truthy(raw_situation)
                              THEN GameSituation(raw_situation, comp0, header)
                              ELSE JNull])

s_clock_sb == <<"0", "2", ":", "0", "0">>

\* what ESPN sends as a situation: clock, down and the team in possession
LiveSituation(clock, down, possession) ==
    [t |-> "dict", clock |-> JStr(clock), down |-> JInt(down), possession |-> possession]

Possessions ==
    {JStr(<<"1">>), JInt(1), JNull, PossessionObject(JStr(<<"2">>)), PossessionObject(JInt(2)),
     [t |-> "dict", uid |-> JStr(<<"3">>)], EmptyDict}

SummarySituations ==
    {JAbsent, JNull, EmptyDict} \cup {LiveSituation(s_clock, 3, pos) : pos \in Possessions}

ScoreboardSituations ==
    {JAbsent, JNull, EmptyDict}
        \cup {LiveSituation(s_clock_sb, 1, pos) : pos \in {JStr(<<"1">>), PossessionObject(JStr(<<"2">>))}}

WithKey(d, k, v) == IF v.t = "absent" THEN d ELSE [x \in DOMAIN d \cup {k} |-> IF x = k THEN v ELSE d[x]]

StatusPeriods == {JAbsent, JInt(3), JStr(<<"3">>)}
WithPeriod(d, period) ==
    IF period.t = "absent" THEN d ELSE WithKey(d, "status", [t |-> "dict", period |-> period])

\* the summaries: one competition under a header, each with or without a period
DetailSummaries ==
    {[t |-> "dict",
      header |-> WithPeriod([t |-> "dict",
                             competitions |-> <<WithPeriod(WithKey(EmptyDict, "situation", sit), cp)>>],
                            hp)] :
        sit \in SummarySituations, cp \in StatusPeriods, hp \in {JAbsent, JInt(2)}}
    \cup {EmptyDict, [t |-> "dict", header |-> [t |-> "dict", competitions |-> <<>>]]}

\* the events of a scoreboard for the event 401
BoardEvents(sit) ==
    {<<>>,
     <<[t |-> "dict", id |-> JStr(s_12),
        competitions |-> <<[t |-> "dict", situation |-> LiveSituation(s_clock_sb, 2, JStr(<<"9">>))]>>]>>,
     <<[t |-> "dict", id |-> JStr(s_401), competitions |-> <<WithKey(EmptyDict, "situation", sit)>>]>>,
     <<[t |-> "dict", id |-> JStr(s_12),
        competitions |-> <<[t |-> "dict", situation |-> LiveSituation(s_clock_sb, 2, JStr(<<"9">>))]>>],
       [t |-> "dict", id |-> JInt(401), competitions |-> <<WithKey(EmptyDict, "situation", sit)>>]>>}

ScoreboardFetches ==
    {Raise("HTTPStatusError"), Return(EmptyDict),
     Return([t |-> "dict", events |-> <<[t |-> "dict", id |-> JStr(s_401)]>>]),
     Return([t |-> "dict", events |-> <<[t |-> "dict", id |-> JStr(s_401), competitions |-> <<>>]>>])}
    \cup {Return([t |-> "dict", events |-> ev]) : ev \in UNION {BoardEvents(sit) : sit \in ScoreboardSituations}}

DetailCalls ==
    {[fn |-> "game_details", raw |-> raw, scoreboard |-> sb, event_id |-> s_401] :
        raw \in DetailSummaries, sb \in ScoreboardFetches}

CallGameDetails ==
    /\ call.fn = "game_details"
    /\ ~ret.done
    /\ ret' = game_details(call.raw, call.scoreboard, call.event_id)
    /\ UNCHANGED <<call, handlerVars, cacheVars>>

InitDetails ==
    /\ call \in DetailCalls
    /\ ret = Pending
    /\ HandlerIdle
    /\ CacheEmpty

NextDetails == CallGameDetails

SpecDetails == InitDetails /\ [][NextDetails]_vars

\* the situation the summary's first competition carries, None when it has none
SummarySituationOf(raw) ==
    IF "header" \notin DOMAIN raw \/ raw.header.competitions = <<>> THEN JNull
    ELSE PyGet(raw.header.competitions[1], "situation")

\* the situation the scoreboard carries for this event id, None when it has none
BoardSituationOf(fetch, event_id) ==
    IF fetch.raised \/ "events" \notin DOMAIN fetch.val THEN JNull
    ELSE LET ev == fetch.val.events
             hit == {i \in 1..Len(ev) : ev[i].id \in {JStr(event_id), JInt(DigitsValue(event_id))}}
         IN  IF hit = {} THEN JNull
             ELSE LET e == ev[CHOOSE i \in hit : TRUE]
                  IN  IF "competitions" \notin DOMAIN e \/ e.competitions = <<>> THEN JNull
                      ELSE PyGet(e.competitions[1], "situation")

NonEmptySituation(s) == s.t = "dict" /\ DOMAIN s # {"t"}

\* the id a possession value names: itself when bare, its id when an object
PossessionIdOf(possession) ==
    IF possession.t = "dict" THEN PyGet(possession, "id") ELSE possession

\* the period of the competition status when it is a number, else the header's
PeriodOf(raw) ==
    LET comp == raw.header.competitions[1]
        of_comp == IF "status" \in DOMAIN comp THEN comp.status.period ELSE JNull
        of_header == IF "status" \in DOMAIN raw.header THEN raw.header.status.period ELSE JNull
    IN  IF of_comp.t = "int" THEN of_comp ELSE IF of_header.t = "int" THEN of_header ELSE JNull

\* C24: game_details never fails on a failed scoreboard fetch; its situation
\* is null exactly when neither the scoreboard event for this id nor the
\* summary's first competition carries a non-empty situation; otherwise its
\* clock and down are those of the scoreboard situation when that one is
\* non-empty and of the summary situation when it is not, possessionTeamId is
\* the string of the possession id (bare, or the id of an object), and period
\* is the competition status period, else the header status period
C24_SituationFromScoreboardThenSummary ==
    (call.fn = "game_details" /\ ret.done) =>
        LET board == BoardSituationOf(call.scoreboard, call.event_id)
            summ == SummarySituationOf(call.raw)
            source == IF NonEmptySituation(board) THEN board ELSE summ
            situation == ret.val.situation
        IN  /\ ~ret.raised
            /\ situation = JNull <=> ~NonEmptySituation(board) /\ ~NonEmptySituation(summ)
            /\ situation # JNull =>
                /\ situation.clock = source.clock
                /\ situation.down = source.down
                /\ situation.period =
                     (IF "header" \in DOMAIN call.raw /\ call.raw.header.competitions # <<>>
                      THEN PeriodOf(call.raw) ELSE JNull)
                /\ LET id == PossessionIdOf(source.possession)
                   IN  id.t \in {"str", "int"} => situation.possessionTeamId = JStr(PyStr(id))

\* a live scoreboard situation wins over a different summary situation, its
\* possession an object, while the period falls back to the header's
C24_Witness ==
    /\ call.fn = "game_details" /\ ret.done
    /\ NonEmptySituation(BoardSituationOf(call.scoreboard, call.event_id))
    /\ NonEmptySituation(SummarySituationOf(call.raw))
    /\ ret.val.situation # JNull
    /\ ret.val.situation.clock = JStr(s_clock_sb)
    /\ ret.val.situation.possessionTeamId = JStr(<<"2">>)
    /\ ret.val.situation.period = JInt(2)

----------------------------------------------------------------------------
(* app/clients/cfbd.py and app/clients/espn.py: cached upstream calls      *)

\* one cache key per client function, its parameters fixed
ClientKeys == {"cfbd:games", "cfbd:game", "cfbd:team_stats"}

\* what the upstream answers: a status and, on 200, a decoded body
UpstreamResponses ==
    {[status |-> 200, body |-> v] : v \in CacheValues}
        \cup {[status |-> 500, body |-> JNull]}

\* what a client call leaves behind: its result, the cache, the requests it
\* issued and whether it called cache.set
ClientOutcome(result, data, requests, stored) ==
    [ret |-> result, data |-> data, requests |-> requests, stored |-> stored]

\* a variant of games that goes to the network without asking the cache
cfbd_games_uncached(data, key, t, response, t_set) ==
    IF response.status >= 400
    THEN ClientOutcome(Raise("HTTPStatusError"), data, <<key>>, FALSE)
    ELSE ClientOutcome(Return(response.body),
                       TTLCache_set(data, key, response.body, t_set), <<key>>, TRUE)

\* games, and with it calendar, conferences and espn's scoreboard and summary:
\* cache.get at t, else one request, raise_for_status, cache.set at t_set
cfbd_games(data, key, t, response, t_set) ==
    LET got == TTLCache_get(data, key, t)
    IN  IF got.val # JNull THEN ClientOutcome(Return(got.val), got.data, <<>>, FALSE)
        ELSE IF response.status >= 400
        THEN ClientOutcome(Raise("HTTPStatusError"), got.data, <<key>>, FALSE)
        ELSE ClientOutcome(Return(response.body),
                           TTLCache_set(got.data, key, response.body, t_set), <<key>>, TRUE)

\* game_details: the plays of a 200 answer, else an empty list, cached either way
cfbd_game_details(data, key, t, response, t_set) ==
    LET got == TTLCache_get(data, key, t)
    IN  IF got.val # JNull THEN ClientOutcome(Return(got.val), got.data, <<>>, FALSE)
        ELSE LET plays_data == IF response.status = 200 THEN <<response.body>> ELSE <<>>
                 result == [t |-> "dict", plays |-> plays_data]
             IN  ClientOutcome(Return(result), TTLCache_set(got.data, key, result, t_set),
                               <<key>>, TRUE)

\* team_game_stats, and with it advanced_game_stats, player_game_stats and
\* game_drives: a 200 answer is cached and returned, any other gives None
cfbd_team_game_stats(data, key, t, response, t_set) ==
    LET got == TTLCache_get(data, key, t)
    IN  IF got.val # JNull THEN ClientOutcome(Return(got.val), got.data, <<>>, FALSE)
        ELSE IF response.status = 200
        THEN ClientOutcome(Return(response.body),
                           TTLCache_set(got.data, key, response.body, t_set), <<key>>, TRUE)
        ELSE ClientOutcome(Return(JNull), got.data, <<key>>, FALSE)

\* the request takes no time or one tick of the clock
Latencies == {d \in {0, 1} : now + d <= MaxTime}

ClientStep(fn, key, out, response, t_set) ==
    /\ call' = [fn |-> fn, key |-> key, at |-> now, response |-> response]
    /\ ret' = out.ret
    /\ _data' = out.data
    /\ upstream' = out.requests
    /\ last_set' = IF out.stored THEN [last_set EXCEPT ![key] = out.data[key]] ELSE last_set
    /\ now' = IF out.requests = <<>> THEN now ELSE t_set
    /\ UNCHANGED <<threads, pc, endpoint, payload, responses>>

CallCfbdGames ==
    \E response \in UpstreamResponses, d \in Latencies :
        ClientStep("games", "cfbd:games",
                   cfbd_games(_data, "cfbd:games", now, response, now + d), response, now + d)

CallCfbdGameDetails ==
    \E response \in UpstreamResponses, d \in Latencies :
        ClientStep("game_details", "cfbd:game",
                   cfbd_game_details(_data, "cfbd:game", now, response, now + d),
                   response, now + d)

CallCfbdTeamGameStats ==
    \E response \in UpstreamResponses, d \in Latencies :
        ClientStep("team_game_stats", "cfbd:team_stats",
                   cfbd_team_game_stats(_data, "cfbd:team_stats", now, response, now + d),
                   response, now + d)

InitClients ==
    /\ call = NoCall
    /\ ret = Pending
    /\ HandlerIdle
    /\ _data = [k \in ClientKeys |-> NoEntry]
    /\ last_set = [k \in ClientKeys |-> NoEntry]
    /\ now = 0
    /\ threads = [t \in Threads |-> ThreadIdle]

NextClients == CallCfbdGames \/ CallCfbdGameDetails \/ CallCfbdTeamGameStats \/ Tick

SpecClients == InitClients /\ [][NextClients]_vars

ClientCalled == call.fn \in {"games", "game_details", "team_game_stats"}
ClientCall == CallCfbdGames \/ CallCfbdGameDetails \/ CallCfbdTeamGameStats

\* a client call made while the data last stored under its key is younger than
\* ttl returns that data without a request; made at any other time it issues
\* exactly one request and, when that succeeds, stores and returns its result
CachedBeforeNetwork ==
    ClientCall =>
        LET key == call'.key
        IN  IF last_set[key].present /\ now - last_set[key].ts < ttl
            THEN /\ ret' = Return(last_set[key].val)
                 /\ upstream' = <<>>
                 /\ _data'[key] = last_set[key]
            ELSE /\ upstream' = <<key>>
                 /\ call'.response.status = 200 =>
                     /\ ~ret'.raised
                     /\ _data'[key] = Entry(now', ret'.val)
                     /\ last_set'[key] = _data'[key]

\* C26: a client call made less than ttl after a fetch stored data under its
\* key returns the stored data and issues no upstream request; a call made
\* when no such data is stored, or after it expired, issues exactly one
\* upstream request and stores its result
C26_CacheBeforeNetwork == [][CachedBeforeNetwork]_vars

\* games answered from the cache one tick after the fetch that stored the data
C26_Witness ==
    /\ call.fn = "games"
    /\ upstream = <<>>
    /\ ret = Return(JInt(2))
    /\ last_set["cfbd:games"].present
    /\ call.at > last_set["cfbd:games"].ts

\* C27: after a client call whose upstream request was answered with a
\* non-success status nothing is cached under its key, so that the next call
\* with the same parameters goes to the upstream again
C27_FailureNotCached ==
    (ClientCalled /\ upstream # <<>> /\ call.response.status # 200) =>
        ~_data[call.key].present

----------------------------------------------------------------------------
(* app/services/games.py: game_details, the win-probability filter         *)

MaxEntries == 2

PlayPeriods == 1..3

\* the period one win-probability entry reads as, None when it names none
PlayPeriod(play) ==
    LET of_period ==
            IF "period" \in DOMAIN play
            THEN IF IsInstanceInt(play.period) THEN play.period
                 ELSE IF play.period.t = "dict" /\ "number" \in DOMAIN play.period
                 THEN play.period.number
                 ELSE JNull
            ELSE JNull
    IN  IF of_period = JNull /\ "qtr" \in DOMAIN play THEN play.qtr ELSE of_period

\* the entries of a list that satisfy keep, in order
RECURSIVE FilterPlays(_, _)
FilterPlays(plays, current_period) ==
    IF plays = <<>> THEN <<>>
    ELSE LET play_period == PlayPeriod(Head(plays))
             rest == FilterPlays(Tail(plays), current_period)
         IN  IF play_period # JNull /\ IntOf(play_period) <= current_period
             THEN <<Head(plays)>> \o rest
             ELSE rest

\* the block under `if win_probability and isinstance(win_probability, list)
\* and situation and situation.period`
FilterWinProbability(win_probability, current_period) ==
    IF win_probability = <<>> \/ current_period = 0 THEN win_probability
    ELSE
    LET total_plays == Len(win_probability)
        sample_play == win_probability[1]
        has_period_info == "period" \in DOMAIN sample_play \/ "qtr" \in DOMAIN sample_play
    IN  IF has_period_info
        THEN LET filtered_plays == FilterPlays(win_probability, current_period)
             IN  IF filtered_plays # <<>> THEN filtered_plays ELSE win_probability
        ELSE LET cutoff_index == (total_plays * current_period) \div 4
                 buffer == total_plays \div 20
                 cut == IF cutoff_index + buffer < total_plays
                        THEN cutoff_index + buffer ELSE total_plays
             IN  SubSeq(win_probability, 1, cut)

\* win-probability entries: the period as a number, as an object, as qtr, or none
WinProbabilityEntries ==
    {[t |-> "dict", period |-> JInt(p)] : p \in PlayPeriods}
        \cup {[t |-> "dict", period |-> [t |-> "dict", number |-> JInt(p)]] : p \in PlayPeriods}
        \cup {[t |-> "dict", qtr |-> JInt(p)] : p \in PlayPeriods}
        \cup {[t |-> "dict", homeWinPercentage |-> JInt(50)]}

WinProbabilityLists == UNION {[1..n -> WinProbabilityEntries] : n \in 0..MaxEntries}

WinProbabilityCalls ==
    {[fn |-> "win_probability", arg |-> wp, period |-> p] :
        wp \in WinProbabilityLists, p \in PlayPeriods}

CallFilterWinProbability ==
    /\ call.fn = "win_probability"
    /\ ~ret.done
    /\ ret' = Return(FilterWinProbability(call.arg, call.period))
    /\ UNCHANGED <<call, handlerVars, cacheVars>>

InitWinProbability ==
    /\ call \in WinProbabilityCalls
    /\ ret = Pending
    /\ HandlerIdle
    /\ CacheEmpty

NextWinProbability == CallFilterWinProbability

SpecWinProbability == InitWinProbability /\ [][NextWinProbability]_vars

CarriesPeriod(play) == "period" \in DOMAIN play \/ "qtr" \in DOMAIN play

\* C28: for a known current period and a list whose entries carry period
\* information, no entry of the returned winProbability list has a period
\* greater than the current period
C28_NoLaterPeriodReturned ==
    (/\ call.fn = "win_probability"
     /\ ret.done
     /\ \A i \in 1..Len(call.arg) : CarriesPeriod(call.arg[i])) =>
        \A i \in 1..Len(ret.val) : IntOf(PlayPeriod(ret.val[i])) <= call.period

----------------------------------------------------------------------------
(* app/services/scoreboard.py: the season type get_scoreboard resolves     *)

SeasonWeek(number, startDate, endDate, seasonType) ==
    [number |-> number, startDate |-> startDate, endDate |-> endDate,
     seasonType |-> seasonType]

\* get_nfl_weeks on the sections of the ESPN calendar, the dates of the entries
\* already Eastern dates: the weeks of section i carry seasonType i
RECURSIVE SectionWeeks(_, _)
SectionWeeks(calendar, section_idx) ==
    IF section_idx > Len(calendar) THEN <<>>
    ELSE LET entries == calendar[section_idx]
         IN  [i \in 1..Len(entries) |->
                 SeasonWeek(entries[i].value, entries[i].startDate, entries[i].endDate,
                            section_idx)]
             \o SectionWeeks(calendar, section_idx + 1)

get_nfl_weeks(calendar) == SectionWeeks(calendar, 1)

\* get_scoreboard("nfl", week=week): the seasontype it passes to espn.scoreboard
SeasonTypeOfWeek(weeks, week) ==
    IF week = JNull THEN JNull
    ELSE LET hits == {i \in 1..Len(weeks) : weeks[i].number = week.n}
         IN  IF hits = {} THEN JNull
             ELSE JInt(weeks[CHOOSE i \in hits : \A j \in hits : i <= j].seasonType)

\* a calendar of k1 preseason, k2 regular and k3 postseason weeks of two days
\* each, one after the other, numbered from 1 within each section
CalendarEntry(value, nth) ==
    [value |-> value, startDate |-> IsoDate(2 * nth - 1), endDate |-> IsoDate(2 * nth)]

SeasonCalendar(k1, k2, k3) ==
    <<[i \in 1..k1 |-> CalendarEntry(i, i)],
      [i \in 1..k2 |-> CalendarEntry(i, k1 + i)],
      [i \in 1..k3 |-> CalendarEntry(i, k1 + k2 + i)]>>

SeasonCalendars ==
    {SeasonCalendar(k1, k2, k3) :
        <<k1, k2, k3>> \in {k \in (0..MaxWeeks) \X (0..MaxWeeks) \X (0..MaxWeeks) :
                               k[1] + k[2] + k[3] <= MaxWeeks}}

SeasonTypeCalls ==
    {[fn |-> "get_scoreboard", calendar |-> c, today |-> IsoDate(d)] :
        c \in SeasonCalendars, d \in 1..(2 * MaxWeeks + 1)}

\* the front end asks for the current week, then for the board of that week
CallScoreboardOfCurrentWeek ==
    /\ call.fn = "get_scoreboard"
    /\ ~ret.done
    /\ LET week == get_current_nfl_week(get_nfl_weeks(call.calendar), call.today)
       IN  ret' = Return([week |-> week,
                          seasontype |-> SeasonTypeOfWeek(get_nfl_weeks(call.calendar), week)])
    /\ UNCHANGED <<call, handlerVars, cacheVars>>

InitSeasonType ==
    /\ call \in SeasonTypeCalls
    /\ ret = Pending
    /\ HandlerIdle
    /\ CacheEmpty

NextSeasonType == CallScoreboardOfCurrentWeek

SpecSeasonType == InitSeasonType /\ [][NextSeasonType]_vars

\* the sections of the calendar that hold a week whose range contains today
SectionsOfToday(calendar, today) ==
    {s \in 1..Len(calendar) :
        \E i \in 1..Len(calendar[s]) :
            /\ StrLeq(calendar[s][i].startDate, today)
            /\ StrLeq(today, calendar[s][i].endDate)}

\* C29: for the week number get_current_nfl_week returns, get_scoreboard
\* resolves the seasonType of the week whose date range contains today, also
\* when that week number occurs in more than one season-type section
C29_SeasonTypeOfTodaysWeek ==
    (call.fn = "get_scoreboard" /\ ret.done) =>
        \A s \in SectionsOfToday(call.calendar, call.today) : ret.val.seasontype = JInt(s)

----------------------------------------------------------------------------
(* app/cfb_scoreboard.py: GET /cfb/scoreboard                              *)

\* what CFBD answers to one request: a status and a body; status 0 stands for
\* a request that failed before any answer (httpx.RequestError)
CfbdResponse(status, body) == [status |-> status, body |-> body]

\* the RuntimeError of _cfbd_get; its message names the status of the answer
CfbdError(status) == [done |-> TRUE, raised |-> TRUE, exc |-> "RuntimeError", status |-> status]

_cfbd_get(response) ==
    IF response.status # 200 THEN CfbdError(response.status)
    ELSE Return(response.body)

\* JSONResponse(status_code=200, content={..., "games": games})
BoardResponse(games) == [status_code |-> 200, games |-> games, error |-> <<>>]
s_upstream_error == "CollegeFootballData upstream error"
ErrorResponse(error) == [status_code |-> 502, games |-> <<>>, error |-> error]

\* the except RuntimeError branch
OnRuntimeError(err) ==
    IF err.status \in {400, 404} THEN BoardResponse(<<>>)
    ELSE ErrorResponse(s_upstream_error)

\* int(date[0:4]) of the date the calls pass
DateYear == JInt(2024)

\* get_cfb_scoreboard with year (or season) and week as given, date present or
\* not, and the answers of /calendar, /games, /teams/fbs and /rankings; the
\* body of /calendar is the week it maps the date to, a /games body is a list
\* of games or something that is no list
get_cfb_scoreboard(year, week, date, calendar, games, teams, rankings) ==
    LET derived_year == IF date /\ year = JNull THEN DateYear ELSE year
        derived_week == IF week # JNull \/ ~date THEN Return(week) ELSE _cfbd_get(calendar)
    IN  IF derived_week.raised THEN OnRuntimeError(derived_week)
        ELSE IF derived_year = JNull \/ derived_week.val = JNull THEN BoardResponse(<<>>)
        ELSE LET games_raw == _cfbd_get(games)
                 teams_meta == _cfbd_get(teams)
                 ranks_meta == _cfbd_get(rankings)
             IN  IF games_raw.raised THEN OnRuntimeError(games_raw)
                 ELSE IF games_raw.val.t # "list" THEN ErrorResponse(s_upstream_error)
                 ELSE IF teams_meta.raised THEN OnRuntimeError(teams_meta)
                 ELSE IF ranks_meta.raised THEN OnRuntimeError(ranks_meta)
                 ELSE BoardResponse(CfbGames(games_raw.val.items))

JList(items) == [t |-> "list", items |-> items]

GamesBodies ==
    {JNull, JList(<<>>)} \cup {JList(<<g>>) : g \in WellFormedCfbGames \cup MalformedCfbGames}
        \cup {JList(<<g, JStr(s_oops)>>) : g \in WellFormedCfbGames}

FailureStatuses == {0, 400, 404, 500}

GamesResponses ==
    {CfbdResponse(200, b) : b \in GamesBodies} \cup {CfbdResponse(s, JNull) : s \in FailureStatuses}

MetaResponses == {CfbdResponse(s, JNull) : s \in {200, 404, 500}}

CalendarResponses ==
    {CfbdResponse(200, JInt(3)), CfbdResponse(200, JNull), CfbdResponse(404, JNull),
     CfbdResponse(500, JNull)}

CfbScoreboardCalls ==
    {[fn |-> "cfb_scoreboard", year |-> y, week |-> w, date |-> d, calendar |-> c,
      games |-> g, teams |-> t, rankings |-> r] :
        y \in {JNull, JInt(2024)}, w \in {JNull, JInt(3)}, d \in BOOLEAN,
        c \in CalendarResponses, g \in GamesResponses, t \in MetaResponses,
        r \in MetaResponses}

CallGetCfbScoreboard ==
    /\ call.fn = "cfb_scoreboard"
    /\ ~ret.done
    /\ ret' = Return(get_cfb_scoreboard(call.year, call.week, call.date, call.calendar,
                                        call.games, call.teams, call.rankings))
    /\ UNCHANGED <<call, handlerVars, cacheVars>>

InitCfbScoreboard ==
    /\ call \in CfbScoreboardCalls
    /\ ret = Pending
    /\ HandlerIdle
    /\ CacheEmpty

NextCfbScoreboard == CallGetCfbScoreboard

SpecCfbScoreboard == InitCfbScoreboard /\ [][NextCfbScoreboard]_vars

\* year and week are both known when /games is asked: given, or the week
\* found by /calendar for the date
WeekDetermined ==
    /\ call.year # JNull \/ call.date
    /\ \/ call.week # JNull
       \/ call.date /\ call.calendar.status = 200 /\ call.calendar.body # JNull

\* /calendar was asked and failed with something else than "no data"
CalendarFailed ==
    call.week = JNull /\ call.date /\ call.calendar.status \notin {200, 400, 404}

GamesSucceeded == WeekDetermined /\ call.games.status = 200 /\ call.games.body # JNull

\* C30: the answer is an empty board (200, games = []) only when year or week
\* cannot be determined, or /games returned 400 or 404 or no game that maps;
\* whenever /games succeeds the answer is 200 with every game of the result
\* that maps without error, whatever /teams/fbs and /rankings answer; any other
\* upstream failure gives 502 "CollegeFootballData upstream error"
C30_CfbScoreboardOutcomes ==
    (call.fn = "cfb_scoreboard" /\ ret.done) =>
        /\ ret.val = BoardResponse(<<>>) =>
            \/ ~WeekDetermined
            \/ call.games.status \in {400, 404}
            \/ GamesSucceeded /\ CfbGames(call.games.body.items) = <<>>
        /\ GamesSucceeded => ret.val = BoardResponse(CfbGames(call.games.body.items))
        /\ (CalendarFailed \/ (WeekDetermined /\ ~GamesSucceeded
                                  /\ call.games.status \notin {400, 404})) =>
            ret.val = ErrorResponse(s_upstream_error)

====
